---- MODULE Spec2Model ----
(***************************************************************************)
(* A model of the matching core of tsfdsong/tradeengin:                    *)
(*   - HybridOrderBook (app/matching/internal/orderbook/hybird.go):        *)
(*     Match and CancelOrder over two price ladders, the order index, the  *)
(*     per-price FIFO rings (seqMaps) and the pooled Order objects;        *)
(*   - RingBuffer (app/pkg/lockfree/ringbuffer.go): Push, Pop and BatchPop *)
(*     as interleaved atomic steps of concurrent producers and consumers;  *)
(*   - MatchingEngine.ProcessOrder (engine): the idempotency mark, the     *)
(*     order-state table and the ingress ring.                             *)
(* Each part has its own specification; the variables of the other parts   *)
(* stay at their initial values.                                           *)
(***************************************************************************)
EXTENDS Integers, Sequences, FiniteSets, TLC

VARIABLES
    \* ---- HybridOrderBook ----
    buys,       \* buys  *SkipTree: price -> PriceLevel (descending ladder)
    sells,      \* sells *SkipTree: price -> PriceLevel (ascending ladder)
    orderMap,   \* orderMap *sync.Map: order id -> *Order (a handle into obj)
    seqMaps,    \* seqMaps map[float64]*RingBuffer: price -> FIFO of *Order
    obj,        \* the Order objects handed to Match, by handle (1..Len(obj))
    version,    \* version uint64
    trades,     \* every Trade emitted so far, in emission order
    tradeLevel, \* history: tradeLevel[i] = the Orders list of the level that
                \* trade i was matched against, as it was at that moment
    placed,     \* history: placed[h] = the order Match got as h, and the
                \* quantity addOrderToBook added for it (Rested, 0 if none)
    cancelled,  \* history: ids whose CancelOrder returned true
    lastOp,     \* history: the last call on the book and what it returned
    \* ---- RingBuffer ----
    head,       \* head uint64
    tail,       \* tail uint64
    capacity,   \* capacity uint64 (mask is capacity - 1)
    requested,  \* the size NewRingBuffer was called with
    buffer,     \* buffer []unsafe.Pointer, slot index 0..capacity-1 |-> item
    proc,       \* per goroutine: its running Push/Pop/BatchPop call (locals)
    issued,     \* history: the number of Push calls begun (items are 1, 2, ..)
    pushed,     \* history: the items whose Push returned true
    popped,     \* history: the items Pop and BatchPop returned, in return order
    \* ---- MatchingEngine ----
    processed,   \* processed *sync.Map: set of order ids marked
    orderStates, \* orderStates *sync.Map: id -> OrderState
    call,        \* per goroutine: its running ProcessOrder call or worker batch
    submitted,   \* history: the number of ProcessOrder calls begun
    returned,    \* history: every finished ProcessOrder call and its error
    enqueued,    \* history: the order ids whose ingress Push returned true
    began,       \* history: for each of them, how many had returned true when
                 \* its Push began
    drained,     \* history: the order ids the workers popped from the ingress ring
    \* ---- the order pipeline: ProcessOrder -> ingress ring -> worker -> book ----
    pool,        \* types.orderPool: object handle -> number of times it is pooled
    inputQueue,  \* the ingress ring used by one goroutine at a time: FIFO of handles
    working,     \* the handle the worker has matched and not yet pooled (0: none)
    outputQueue, \* outputQueue *RingBuffer used by one goroutine at a time: FIFO of MatchResults
    handled,     \* history: the ids of the takers whose trades handleMatchResult has seen
    \* ---- the life cycle of the engine: Start, Stop and the tasks they launch ----
    started,     \* started bool
    mu,          \* mu sync.RWMutex: the caller holding the write lock (0: free)
    wg,          \* wg sync.WaitGroup: its counter
    tasks,       \* per Start that launched: the goroutines still running on its context, by
                 \* kind, and whether the context is cancelled
    lcall,       \* per caller: its running Start or Stop call and what the last one returned
    lcalls,      \* history: the number of Start and Stop calls begun
    \* ---- one SkipTree, as the skip list it is ----
    skipTree,    \* the SkipTree: header, nodes, level, maxLevel, reverse, size
    shadow,      \* history: the map price -> level that Insert and Remove stand for
    \* ---- a goroutine calling RingBuffer.Size ----
    sizing,      \* its position in Size, the head it loaded and what the last call returned
    \* ---- Order.IsValid ----
    validated,   \* the last order IsValid was called on and what it returned
    \* ---- SkipTree.RangeBetween ----
    ranged,      \* the last RangeBetween call on skipTree: its arguments and the
                 \* callbacks it made, in order
    \* ---- one OrderQueue ----
    oq,          \* the OrderQueue: orders (slot index 0..len-1 |-> order id or NIL),
                 \* head, tail, size
    fifo,        \* history: the ids pushed and not yet popped or removed, in push order
    oqCall,      \* history: the last call on the queue, its argument and what it returned
    oqPushes,    \* history: the number of Push calls made
    \* ---- the MatchResults on their way from Match to the pool ----
    egress,      \* outputQueue *RingBuffer as its workers and the result processor use
                 \* it: FIFO of MatchResults (each named by the handle of its order)
    resultLog,   \* history, per MatchResult that Match took from the pool: where it is
                 \* (queued, dropped, empty, handled) and how often it was put back
    \* ---- Snapshotter ----
    snapshotter, \* the snapshotter goroutine inside takeSnapshot: its position, the
                 \* obSnapshot it holds and (history) the book state that one shows
    snapshot,    \* the last Snapshot produced and (history) the book states its parts show
    \* ---- one MatchingWorker and its context ----
    ctxDone,     \* the worker's context is cancelled
    ingress,     \* the worker's input queue: the orders pushed and not yet popped
    runner,      \* the worker goroutine: its position in Run / processBatch and the
                 \* orders of its BatchPop that it has not yet looked at
    taken,       \* history: every order the worker's BatchPop calls returned
    passed       \* history: every order the worker passed to processOrder (and so to Match)

bookVars == <<buys, sells, orderMap, seqMaps, obj, version, trades, tradeLevel, placed,
              cancelled, lastOp>>
ringVars == <<head, tail, capacity, requested, buffer, proc, issued, pushed, popped>>
engineVars ==
    <<processed, orderStates, call, submitted, returned, enqueued, began, drained>>
pipeVars == <<pool, inputQueue, working, outputQueue, handled>>
lifeVars == <<started, mu, wg, tasks, lcall, lcalls>>
skipVars == <<skipTree, shadow>>
coreVars == <<bookVars, ringVars, engineVars, pipeVars, lifeVars, skipVars>>
sizeVars == <<sizing>>
validVars == <<validated>>
rangeVars == <<ranged>>
queueVars == <<oq, fifo, oqCall, oqPushes>>
resultVars == <<egress, resultLog>>
snapVars == <<snapshotter, snapshot>>
workerVars == <<ctxDone, ingress, runner, taken, passed>>
extVars == <<sizeVars, validVars, rangeVars, queueVars, resultVars, snapVars, workerVars>>
vars == <<bookVars, ringVars, engineVars, pipeVars, lifeVars, skipVars, extVars>>

\* ------------------------------------------------------------------------
\* Bounds of the model
\* ------------------------------------------------------------------------
MaxOrders == 3        \* Match calls in one run of SpecBook
WorkerCount == 2      \* config.Matching.WorkerCount in SpecLife
NumLifeCallers == 2   \* goroutines calling Start and Stop in SpecLife
MaxLifeCalls == 4     \* Start and Stop calls in one run of SpecLife
MaxLivePushes == 3    \* Push calls in one run of SpecRingLive
WordBits == 11        \* the width of an unsigned word of NewRingBuffer
MaxSize == 128        \* NewRingBuffer is called with 1..MaxSize in SpecNewRing
MaxSeqSize == 3       \* NewRingBuffer is called with 1..MaxSeqSize in SpecRingSeq
MaxSeqPushes == 5     \* Push calls in one run of SpecRingSeq
MaxSeqBatch == 3      \* BatchPop is called with max in -1..MaxSeqBatch in SpecRingSeq
SkipMaxLevel == 2     \* maxLevel of the SkipTree of SpecSkip
MaxCallbacks == 2     \* the callback of RangeBetween returns false at call 1..MaxCallbacks, or never
MaxRangeSize == 3     \* SpecSkipRange inserts while the tree holds fewer levels
MaxQueueCapacity == 2 \* NewOrderQueue is called with 1..MaxQueueCapacity in SpecOrderQueue
MaxQueuePushes == 5   \* Push calls in one run of SpecOrderQueue
EgressCapacity == 1   \* the capacity of the egress ring in SpecResults
EgressBatch == 1      \* config.Matching.BatchSize of the result processor in SpecResults
MaxResultOrders == 3  \* orders the worker processes in one run of SpecResults
MaxSnapOrders == 2    \* Match calls in one run of SpecSnapshot
MaxStopOrders == 5    \* orders pushed to the worker's queue in one run of SpecWorkerStop
WorkerBatchSize == 2  \* the worker's batchSize in SpecWorkerStop
SnapDepth == 2        \* the depth takeSnapshot asks GetSnapshot for (100 in the code)
MaxStopPushes == 2    \* Push calls in one run of SpecStopLive
MaxLiveOrders == 2    \* ProcessOrder calls in one run of SpecPipeLive
MaxLevelOrders == 6   \* Match calls in one run of SpecLevel
MaxQty == 2           \* order quantities of SpecBook are 1..MaxQty
RingSize == 1         \* the size NewRingBuffer is called with
NumProcs == 3         \* goroutines calling into the ring
MaxPushes == 2        \* Push calls in one run of SpecRing
MaxBatch == 1         \* BatchPop is called with max in 0..MaxBatch
IngressSize == 2      \* the size of the engine's ingress ring
MaxIDs == 3           \* order ids of SpecEngine are 1..MaxIDs
MaxCalls == 3         \* ProcessOrder calls in one run of SpecEngine
MaxPipeOrders == 3    \* ProcessOrder calls in one run of SpecPipe

\* the limit prices the callers of SpecBook use, and the one price of SpecLevel
Prices == {1, 2}
SkipPrices == {10, 20, 21, 30}   \* the prices of SpecSkip, in units of epsilon
SkipQtys == {1, 2}               \* the total quantities of the levels SpecSkip inserts
Epsilon == 1
LevelPrice == 1

\* ------------------------------------------------------------------------
\* Program constants
\* ------------------------------------------------------------------------
SideBuy == 1
SideSell == 2
TypeLimit == 1
TypeMarket == 2
LevelQueueSize == 1000

NIL == 0   \* a nil pointer; also the zero value Reset() leaves in a field

min(a, b) == IF a < b THEN a ELSE b

\* time.Now().UnixNano(): a clock value, far from every order id of the model
generateTradeID == 1000000

\* ------------------------------------------------------------------------
\* lockfree.NewRingBuffer: the capacity is size rounded up to a power of two
\* ------------------------------------------------------------------------
RECURSIVE BitOr(_, _)
BitOr(a, b) ==
    IF a = 0 THEN b
    ELSE IF b = 0 THEN a
    ELSE (IF a % 2 = 1 \/ b % 2 = 1 THEN 1 ELSE 0) + 2 * BitOr(a \div 2, b \div 2)

BitAnd(a, b) == a + b - BitOr(a, b)

\* n >> k
RECURSIVE ShiftRight(_, _)
ShiftRight(n, k) == IF k = 0 \/ n = 0 THEN n ELSE ShiftRight(n \div 2, k - 1)

\* uint64 arithmetic is modelled with words of WordBits bits
Word == 2 ^ WordBits

\* n--; n |= n>>1; ... n |= n>>32; n++   (n >= 1; n++ wraps around)
nextPowerOfTwo(n) ==
    LET n0 == n - 1
        n1 == BitOr(n0, ShiftRight(n0, 1))
        n2 == BitOr(n1, ShiftRight(n1, 2))
        n3 == BitOr(n2, ShiftRight(n2, 4))
        n4 == BitOr(n3, ShiftRight(n3, 8))
        n5 == BitOr(n4, ShiftRight(n4, 16))
        n6 == BitOr(n5, ShiftRight(n5, 32))
    IN  (n6 + 1) % Word

\* NewRingBuffer(size).capacity, size >= 1
NewRingBufferCapacity(size) ==
    IF BitAnd(size, size - 1) # 0 THEN nextPowerOfTwo(size) ELSE size

\* the capacity of a per-price FIFO: NewRingBuffer(1000)
LevelQueueCapacity == NewRingBufferCapacity(LevelQueueSize)

\* ------------------------------------------------------------------------
\* SkipTree as the ordered map it implements (price -> *PriceLevel)
\* ------------------------------------------------------------------------
EmptyTree == <<>>

SkipLen(tree) == Cardinality(DOMAIN tree)

SkipGet(tree, price) == IF price \in DOMAIN tree THEN tree[price] ELSE NIL

\* Get(price) # nil
SkipHas(tree, price) == price \in DOMAIN tree

SkipInsert(tree, price, level) ==
    [p \in (DOMAIN tree) \cup {price} |-> IF p = price THEN level ELSE tree[p]]

SkipRemove(tree, price) == [p \in (DOMAIN tree) \ {price} |-> tree[p]]

\* the level with the lowest price (nil when the tree is empty)
MinPriceNode(tree) ==
    IF SkipLen(tree) = 0 THEN NIL
    ELSE tree[CHOOSE p \in DOMAIN tree : \A q \in DOMAIN tree : p <= q]

\* a best bid that is the lowest bid
lowestNode(tree) == MinPriceNode(tree)

\* the level with the highest price (nil when the tree is empty)
MaxPriceNode(tree) ==
    IF SkipLen(tree) = 0 THEN NIL
    ELSE tree[CHOOSE p \in DOMAIN tree : \A q \in DOMAIN tree : p >= q]

\* ------------------------------------------------------------------------
\* SkipTree as the skip list it is: a header and nodes with forward pointers
\* on the levels 0..node.level.  A node pointer is a node id, HeaderNode or
\* NIL; a *PriceLevel is the pair <<Price, TotalQty>> or NilLevel.  Prices are
\* in units of epsilon (1e-10)
\* ------------------------------------------------------------------------
HeaderNode == 0 - 1

NilLevel == <<>>

PriceOf(level) == level[1]

TotalQtyOf(level) == level[2]

NewSkipTree(maxLevel, reverse) ==
    [header |-> [i \in 0..maxLevel |-> NIL], nodes |-> <<>>, level |-> 0,
     maxLevel |-> maxLevel, reverse |-> reverse, size |-> 0]

\* SkipTree.compare with "const epsilon = 1e-10": prices that differ by at
\* most epsilon compare equal
compareKeys(a, b, reverse) ==
    LET diff == a - b
    IN  IF diff > Epsilon THEN (IF reverse THEN 0 - 1 ELSE 1)
        ELSE IF diff < 0 - Epsilon THEN (IF reverse THEN 1 ELSE 0 - 1)
        ELSE 0

\* node.forward[i]
forward(st, node, i) ==
    IF node = HeaderNode THEN st.header[i] ELSE st.nodes[node].forward[i]

\* node.forward[i] = target
setForward(st, node, i, target) ==
    IF node = HeaderNode
    THEN [st EXCEPT !.header[i] = target]
    ELSE [st EXCEPT !.nodes[node].forward[i] = target]

\* node.value (the header's is nil)
valueOf(st, node) == IF node = HeaderNode THEN NilLevel ELSE st.nodes[node].value

\* for current.forward[i] != nil && st.compare(current.forward[i].key, price) < 0
RECURSIVE advance(_, _, _, _)
advance(st, current, i, price) ==
    LET next == forward(st, current, i)
    IN  IF next # NIL /\ compareKeys(st.nodes[next].key, price, st.reverse) < 0
        THEN advance(st, next, i, price)
        ELSE current

\* for i := st.level; i >= 0; i-- { ...; update[i] = current }
RECURSIVE findUpdate(_, _, _, _, _)
findUpdate(st, current, i, price, update) ==
    IF i < 0 THEN update
    ELSE LET stop == advance(st, current, i, price)
         IN  findUpdate(st, stop, i - 1, price, [update EXCEPT ![i] = stop])

\* update := make([]*SkipNode, st.maxLevel+1) filled by the search from the header
searchUpdate(st, price) ==
    findUpdate(st, HeaderNode, st.level, price, [i \in 0..st.maxLevel |-> NIL])

\* for i := 0; i <= newLevel; i++ { update[i].forward[i] = newNode }
RECURSIVE linkNode(_, _, _, _, _)
linkNode(st, update, node, i, newLevel) ==
    IF i > newLevel THEN st
    ELSE linkNode(setForward(st, update[i], i, node), update, node, i + 1, newLevel)

\* SkipTree.Insert(price, level), with newLevel the value of randomLevel()
Insert(st, price, level, newLevel) ==
    LET update == searchUpdate(st, price)
        current == forward(st, update[0], 0)
    IN  IF current # NIL /\ compareKeys(st.nodes[current].key, price, st.reverse) = 0
        THEN [st EXCEPT !.nodes[current].value = level]
        ELSE LET raised == [i \in 0..st.maxLevel |->
                               IF i > st.level /\ i <= newLevel THEN HeaderNode ELSE update[i]]
                 node == CHOOSE n \in 1..(Cardinality(DOMAIN st.nodes) + 1) :
                             n \notin DOMAIN st.nodes
                 newNode == [key |-> price, value |-> level, level |-> newLevel,
                             forward |-> [i \in 0..newLevel |-> forward(st, raised[i], i)]]
                 grown == [st EXCEPT
                              !.nodes = [n \in (DOMAIN st.nodes) \cup {node} |->
                                            IF n = node THEN newNode ELSE st.nodes[n]],
                              !.level = IF newLevel > st.level THEN newLevel ELSE st.level,
                              !.size = st.size + 1]
             IN  linkNode(grown, raised, node, 0, newLevel)

\* for i := 0; i <= st.level; i++ { if update[i].forward[i] != current { break };
\* update[i].forward[i] = current.forward[i] }
RECURSIVE unlinkNode(_, _, _, _)
unlinkNode(st, update, current, i) ==
    IF i > st.level \/ forward(st, update[i], i) # current THEN st
    ELSE unlinkNode(setForward(st, update[i], i, st.nodes[current].forward[i]),
                    update, current, i + 1)

\* for st.level > 0 && st.header.forward[st.level] == nil { st.level-- }
RECURSIVE lowerLevel(_)
lowerLevel(st) ==
    IF st.level > 0 /\ st.header[st.level] = NIL
    THEN lowerLevel([st EXCEPT !.level = st.level - 1])
    ELSE st

\* SkipTree.Remove(price); the unlinked node is garbage
Remove(st, price) ==
    LET update == searchUpdate(st, price)
        current == forward(st, update[0], 0)
    IN  IF current = NIL \/ compareKeys(st.nodes[current].key, price, st.reverse) # 0
        THEN st
        ELSE LET lowered == lowerLevel(unlinkNode(st, update, current, 0))
             IN  [lowered EXCEPT
                     !.nodes = [n \in (DOMAIN st.nodes) \ {current} |-> lowered.nodes[n]],
                     !.size = st.size - 1]

\* SkipTree.Get(price)
Get(st, price) ==
    LET current == forward(st, searchUpdate(st, price)[0], 0)
    IN  IF current # NIL /\ compareKeys(st.nodes[current].key, price, st.reverse) = 0
        THEN st.nodes[current].value
        ELSE NilLevel

\* for i := st.level; i >= 0; i-- { for current.forward[i] != nil { current =
\* current.forward[i] } }
RECURSIVE lastNode(_, _, _)
lastNode(st, current, i) ==
    IF i < 0 THEN current
    ELSE IF forward(st, current, i) # NIL THEN lastNode(st, forward(st, current, i), i)
    ELSE lastNode(st, current, i - 1)

\* the value of header.forward[0], nil when there is none
firstLevel(st) == IF st.header[0] # NIL THEN st.nodes[st.header[0]].value ELSE NilLevel

\* the value of the last node of the list
lastLevel(st) == valueOf(st, lastNode(st, HeaderNode, st.level))

\* SkipNode.key; the header's key is 0
keyOf(st, node) == IF node = HeaderNode THEN 0 ELSE st.nodes[node].key

\* Validate(): the walk along level i, prev and current as in the code
RECURSIVE validateLevel(_, _, _, _)
validateLevel(st, prev, current, i) ==
    IF current = NIL THEN TRUE
    ELSE IF compareKeys(keyOf(st, prev), keyOf(st, current), st.reverse) > 0 THEN FALSE
    ELSE IF st.nodes[current].level < i THEN FALSE
    ELSE validateLevel(st, current, forward(st, current, i), i)

\* SkipTree.Validate()
Validate(st) == \A i \in 0..st.level : validateLevel(st, HeaderNode, st.header[i], i)

\* RangeBetween: the search for the start, down from level i
RECURSIVE rangeStart(_, _, _, _)
rangeStart(st, current, i, minPrice) ==
    LET reached == advance(st, current, i, minPrice)
    IN  IF i = 0 THEN reached ELSE rangeStart(st, reached, i - 1, minPrice)

\* RangeBetween: the walk along level 0 from current; fn returns false at its
\* call number stopAt (never when stopAt = 0), calls counts the calls made
RECURSIVE rangeWalk(_, _, _, _, _)
rangeWalk(st, current, maxPrice, stopAt, calls) ==
    IF current = NIL \/ compareKeys(st.nodes[current].key, maxPrice, st.reverse) > 0
    THEN <<>>
    ELSE LET visit == <<st.nodes[current].key, st.nodes[current].value>>
         IN  IF calls + 1 = stopAt THEN <<visit>>
             ELSE <<visit>> \o rangeWalk(st, forward(st, current, 0), maxPrice, stopAt,
                                        calls + 1)

\* SkipTree.RangeBetween(minPrice, maxPrice, fn): the calls of fn, in order
RangeBetween(st, minPrice, maxPrice, stopAt) ==
    rangeWalk(st, forward(st, rangeStart(st, HeaderNode, st.level, minPrice), 0),
              maxPrice, stopAt, 0)

\* a MaxPriceNode that returns the head of the list whatever the orientation
headLevel(st) == firstLevel(st)

\* SkipTree.MinPriceNode() on the skip list
ListMinPriceNode(st) ==
    IF st.size = 0 THEN NilLevel
    ELSE IF st.reverse THEN lastLevel(st) ELSE firstLevel(st)

\* SkipTree.MaxPriceNode() on the skip list
ListMaxPriceNode(st) ==
    IF st.size = 0 THEN NilLevel
    ELSE IF st.reverse THEN firstLevel(st) ELSE lastLevel(st)

\* HybridOrderBook.GetBestBid() on the ladder st
GetBestBid(st) ==
    IF st.size = 0 THEN <<0, 0>>
    ELSE LET bestBid == ListMaxPriceNode(st)
         IN  IF bestBid = NilLevel THEN <<0, 0>> ELSE <<PriceOf(bestBid), TotalQtyOf(bestBid)>>

\* HybridOrderBook.GetBestAsk() on the ladder st
GetBestAsk(st) ==
    IF st.size = 0 THEN <<0, 0>>
    ELSE LET bestAsk == ListMinPriceNode(st)
         IN  IF bestAsk = NilLevel THEN <<0, 0>> ELSE <<PriceOf(bestAsk), TotalQtyOf(bestAsk)>>

\* ------------------------------------------------------------------------
\* The per-price FIFO ring, used under the book's lock (one caller at a time)
\* ------------------------------------------------------------------------
\* RingBuffer.Push: false (nothing stored) when the ring is full
QueuePush(q, item) == IF Len(q) >= LevelQueueCapacity THEN q ELSE Append(q, item)

\* types.Order.Reset, via PutOrderToPool
ResetOrder == [ID |-> 0, Price |-> 0, Quantity |-> 0, Side |-> 0, Type |-> 0]

\* getEarliestOrderFromLevel: pops the head of seqMaps[price]; nil when the
\* price has no ring or the ring is empty
getEarliestOrderFromLevel(sm, price) ==
    IF price \notin DOMAIN sm THEN [order |-> NIL, seqMaps |-> sm]
    ELSE IF Len(sm[price]) = 0 THEN [order |-> NIL, seqMaps |-> sm]
    ELSE [order |-> Head(sm[price]),
          seqMaps |-> [sm EXCEPT ![price] = Tail(sm[price])]]

\* executeTrade: the maker is the order popped from the price's ring, or a
\* synthetic order when the pop misses; TakerSide is not set by the code and
\* keeps the zero value of a pooled Trade
executeTrade(taker, makerLevel, qty, price, sm) ==
    LET got == getEarliestOrderFromLevel(sm, makerLevel.Price)
        makerID == IF got.order = NIL THEN generateTradeID ELSE obj[got.order].ID
    IN  [trade |-> [TakerOrderID |-> taker.ID, MakerOrderID |-> makerID,
                    Price |-> price, Quantity |-> qty, TakerSide |-> 0],
         seqMaps |-> got.seqMaps]

\* updatePriceLevel
updatePriceLevel(level, delta) ==
    LET q == level.TotalQty + delta
    IN  [level EXCEPT !.TotalQty = IF q < 0 THEN 0 ELSE q]

\* the body of the matching loop after the trade: "bestAsk.TotalQty -=
\* matchedQty", then the level is removed when it reached 0 and passed to
\* updatePriceLevel(level, -matchedQty) otherwise
consumeLevel(st, level, matchedQty, trade, sm) ==
    LET dec == [level EXCEPT !.TotalQty = level.TotalQty - matchedQty]
    IN  IF dec.TotalQty = 0
        THEN [tree |-> SkipRemove(st.tree, level.Price),
              seqMaps |-> [p \in (DOMAIN sm) \ {level.Price} |-> sm[p]],
              remainingQty |-> st.remainingQty - matchedQty,
              trades |-> Append(st.trades, trade),
              seen |-> Append(st.seen, level.Orders)]
        ELSE [tree |-> [st.tree EXCEPT ![level.Price] = updatePriceLevel(dec, 0 - matchedQty)],
              seqMaps |-> sm,
              remainingQty |-> st.remainingQty - matchedQty,
              trades |-> Append(st.trades, trade),
              seen |-> Append(st.seen, level.Orders)]

\* a trade priced at the incoming order's price
takerPrice(order, level) == order.Price

\* the price argument of the executeTrade calls of the matching loops:
\* bestAsk.Price, bestBid.Price
levelPrice(order, level) == level.Price

\* matchBuyOrder: st.tree is the sell ladder
RECURSIVE matchBuyOrder(_, _)
matchBuyOrder(order, st) ==
    IF ~(st.remainingQty > 0 /\ SkipLen(st.tree) > 0) THEN st
    ELSE LET bestAsk == MinPriceNode(st.tree) IN
         IF order.Type = TypeLimit /\ order.Price < bestAsk.Price THEN st
         ELSE LET matchedQty == min(st.remainingQty, bestAsk.TotalQty) IN
              IF matchedQty <= 0 THEN st
              ELSE LET ex == executeTrade(order, bestAsk, matchedQty, levelPrice(order, bestAsk), st.seqMaps)
                   IN  matchBuyOrder(order, consumeLevel(st, bestAsk, matchedQty, ex.trade, ex.seqMaps))

\* matchSellOrder: st.tree is the buy ladder
RECURSIVE matchSellOrder(_, _)
matchSellOrder(order, st) ==
    IF ~(st.remainingQty > 0 /\ SkipLen(st.tree) > 0) THEN st
    ELSE LET bestBid == MaxPriceNode(st.tree) IN
         IF order.Type = TypeLimit /\ order.Price > bestBid.Price THEN st
         ELSE LET matchedQty == min(st.remainingQty, bestBid.TotalQty) IN
              IF matchedQty <= 0 THEN st
              ELSE LET ex == executeTrade(order, bestBid, matchedQty, levelPrice(order, bestBid), st.seqMaps)
                   IN  matchSellOrder(order, consumeLevel(st, bestBid, matchedQty, ex.trade, ex.seqMaps))

\* addOrderToBook on the order's own ladder: the level after the append
addOrderToLevel(tree, order, h, qty) ==
    LET level == IF ~SkipHas(tree, order.Price)
                 THEN [Price |-> order.Price, TotalQty |-> 0, Orders |-> <<>>]
                 ELSE SkipGet(tree, order.Price)
    IN  SkipInsert(tree, order.Price,
                   [level EXCEPT !.Orders = Append(level.Orders, h),
                                 !.TotalQty = level.TotalQty + qty])

\* addOrderToBook: the ring of the order's price after the push
addOrderToQueue(sm, order, h) ==
    LET q == IF order.Price \in DOMAIN sm THEN sm[order.Price] ELSE <<>>
    IN  [p \in (DOMAIN sm) \cup {order.Price} |->
            IF p = order.Price THEN QueuePush(q, h) ELSE sm[p]]

\* a version that counts trades instead of calls
versionPerTrade(v, ts) == v + Len(ts)

\* Match: "h.version++", once per call whatever trades it made
versionAfterMatch(v, ts) == v + 1

\* a Match that rests every unfilled residual, whatever the order type
restsAnyResidual(order, remainingQty) == remainingQty > 0

\* Match: "if remainingQty > 0 && order.Type == types.TypeLimit", the
\* condition under which the residual is passed to addOrderToBook
restsInBook(order, remainingQty) == remainingQty > 0 /\ order.Type = TypeLimit

\* HybridOrderBook.Match(order) for the order object with handle h; objs is
\* the object store once the caller's object is in it
MatchObject(h, order, objs) ==
    LET isBuy == order.Side = SideBuy
        st0 == [tree |-> IF isBuy THEN sells ELSE buys, seqMaps |-> seqMaps,
                remainingQty |-> order.Quantity, trades |-> <<>>, seen |-> <<>>]
        st == IF isBuy THEN matchBuyOrder(order, st0) ELSE matchSellOrder(order, st0)
        rests == restsInBook(order, st.remainingQty)
        own == IF isBuy THEN buys ELSE sells
        own1 == IF rests THEN addOrderToLevel(own, order, h, st.remainingQty) ELSE own
    IN  /\ obj' = objs
        /\ buys' = IF isBuy THEN own1 ELSE st.tree
        /\ sells' = IF isBuy THEN st.tree ELSE own1
        /\ seqMaps' = IF rests THEN addOrderToQueue(st.seqMaps, order, h) ELSE st.seqMaps
        /\ orderMap' = IF rests
                       THEN [i \in (DOMAIN orderMap) \cup {order.ID} |->
                                IF i = order.ID THEN h ELSE orderMap[i]]
                       ELSE orderMap
        /\ placed' = Append(placed, [ID |-> order.ID, Price |-> order.Price,
                                     Quantity |-> order.Quantity, Side |-> order.Side,
                                     Type |-> order.Type,
                                     Rested |-> IF rests THEN st.remainingQty ELSE 0])
        /\ trades' = trades \o st.trades
        /\ tradeLevel' = tradeLevel \o st.seen
        /\ version' = versionAfterMatch(version, st.trades)
        /\ lastOp' = [op |-> "Match", ok |-> TRUE]
        /\ UNCHANGED cancelled

\* HybridOrderBook.Match(order): order is a new object, with handle Len(obj)+1
Match(order) == MatchObject(Len(obj) + 1, order, Append(obj, order))

\* the index of the first order of level.Orders whose ID field is orderID
\* (0 when there is none): the loop of CancelOrder
FindInLevel(level, orderID) ==
    LET hits == {i \in 1..Len(level.Orders) : obj[level.Orders[i]].ID = orderID}
    IN  IF hits = {} THEN 0 ELSE CHOOSE i \in hits : \A j \in hits : i <= j

RemoveAt(s, i) == SubSeq(s, 1, i - 1) \o SubSeq(s, i + 1, Len(s))

\* whether HybridOrderBook.CancelOrder(orderID) returns true
CancelSucceeds(orderID) ==
    /\ orderID \in DOMAIN orderMap
    /\ LET order == obj[orderMap[orderID]]
           tree == IF order.Side = SideBuy THEN buys ELSE sells
       IN  /\ SkipHas(tree, order.Price)
           /\ FindInLevel(SkipGet(tree, order.Price), orderID) # 0

\* the level CancelOrder leaves: the order dropped from Orders and the
\* order's Quantity field taken off TotalQty
cancelFromLevel(level, i, order) ==
    [level EXCEPT !.Orders = RemoveAt(level.Orders, i),
                  !.TotalQty = level.TotalQty - order.Quantity]

\* HybridOrderBook.CancelOrder(orderID)
CancelOrder(orderID) ==
    IF ~CancelSucceeds(orderID)
    THEN /\ lastOp' = [op |-> "CancelOrder", ok |-> FALSE]
         /\ UNCHANGED <<buys, sells, orderMap, seqMaps, obj, version, trades, tradeLevel,
                       placed, cancelled>>
    ELSE LET h == orderMap[orderID]
             order == obj[h]
             isBuy == order.Side = SideBuy
             tree == IF isBuy THEN buys ELSE sells
             level == SkipGet(tree, order.Price)
             left == cancelFromLevel(level, FindInLevel(level, orderID), order)
             gone == left.TotalQty = 0
             tree1 == IF gone THEN SkipRemove(tree, order.Price)
                      ELSE [tree EXCEPT ![order.Price] = left]
         IN  /\ buys' = IF isBuy THEN tree1 ELSE buys
             /\ sells' = IF isBuy THEN sells ELSE tree1
             /\ seqMaps' = IF gone
                           THEN [p \in (DOMAIN seqMaps) \ {order.Price} |-> seqMaps[p]]
                           ELSE seqMaps
             /\ orderMap' = [i \in (DOMAIN orderMap) \ {orderID} |-> orderMap[i]]
             /\ obj' = [obj EXCEPT ![h] = ResetOrder]
             /\ version' = version + 1
             /\ cancelled' = cancelled \cup {orderID}
             /\ lastOp' = [op |-> "CancelOrder", ok |-> TRUE]
             /\ UNCHANGED <<trades, tradeLevel, placed>>

\* ------------------------------------------------------------------------
\* lockfree.RingBuffer, one atomic load, CAS, swap or store per step.
\* proc[p] holds the locals of the call goroutine p is running:
\*   pc     where the call stands ("idle": no call, "ret": it has returned)
\*   head, tail, index, count, i   the locals of that name
\*   item   Push: the item to store; Pop: the item loaded
\*   items  BatchPop: the items collected so far
\*   ok     Push: the value returned
\* ------------------------------------------------------------------------
Mask == capacity - 1
Procs == 1..NumProcs

Idle == [pc |-> "idle", op |-> "none", head |-> 0, tail |-> 0, index |-> 0, count |-> 0,
         max |-> 0, i |-> 0, item |-> NIL, items |-> <<>>, ok |-> FALSE]

\* a Push that never finds the ring full
neverFull(h, t) == FALSE

\* uint64: head-tail >= capacity; the difference wraps around to at least
\* 2^64 - tail when head < tail
FullAt(h, t) == IF h >= t THEN h - t >= capacity ELSE TRUE

\* ---- Push(item) ----
BeginPush(p, item) ==
    /\ proc[p].pc = "idle"
    /\ proc' = [proc EXCEPT ![p] = [Idle EXCEPT !.pc = "push_head", !.op = "Push",
                                                !.item = item]]

\* head := atomic.LoadUint64(&q.head)
PushLoadHead(p) ==
    /\ proc[p].pc = "push_head"
    /\ proc' = [proc EXCEPT ![p].head = head, ![p].pc = "push_tail"]
    /\ UNCHANGED <<head, tail, buffer>>

\* tail := atomic.LoadUint64(&q.tail); if head-tail >= q.capacity return false
PushLoadTail(p) ==
    /\ proc[p].pc = "push_tail"
    /\ proc' = [proc EXCEPT ![p].tail = tail,
                            ![p].ok = FALSE,
                            ![p].pc = IF FullAt(proc[p].head, tail) THEN "ret" ELSE "push_cas"]
    /\ UNCHANGED <<head, tail, buffer>>

\* atomic.CompareAndSwapUint64(&q.head, head, head+1); index := head & q.mask
PushCas(p) ==
    /\ proc[p].pc = "push_cas"
    /\ IF head = proc[p].head
       THEN /\ head' = proc[p].head + 1
            /\ proc' = [proc EXCEPT ![p].index = BitAnd(proc[p].head, Mask),
                                    ![p].pc = "push_wait"]
       ELSE /\ head' = head
            /\ proc' = [proc EXCEPT ![p].pc = "push_head"]
    /\ UNCHANGED <<tail, buffer>>

\* for atomic.LoadPointer(&q.buffer[index]) != nil { runtime.Gosched() }
PushWait(p) ==
    /\ proc[p].pc = "push_wait"
    /\ proc' = [proc EXCEPT ![p].pc = IF buffer[proc[p].index] # NIL
                                      THEN "push_wait" ELSE "push_store"]
    /\ UNCHANGED <<head, tail, buffer>>

\* atomic.StorePointer(&q.buffer[index], item); return true
PushStore(p) ==
    /\ proc[p].pc = "push_store"
    /\ buffer' = [buffer EXCEPT ![proc[p].index] = proc[p].item]
    /\ proc' = [proc EXCEPT ![p].ok = TRUE, ![p].pc = "ret"]
    /\ UNCHANGED <<head, tail>>

\* ---- Pop() ----
BeginPop(p) ==
    /\ proc[p].pc = "idle"
    /\ proc' = [proc EXCEPT ![p] = [Idle EXCEPT !.pc = "pop_head", !.op = "Pop"]]

PopLoadHead(p) ==
    /\ proc[p].pc = "pop_head"
    /\ proc' = [proc EXCEPT ![p].head = head, ![p].pc = "pop_tail"]
    /\ UNCHANGED <<head, tail, buffer>>

\* tail := atomic.LoadUint64(&q.tail); if tail >= head return nil
PopLoadTail(p) ==
    /\ proc[p].pc = "pop_tail"
    /\ proc' = [proc EXCEPT ![p].tail = tail,
                            ![p].item = NIL,
                            ![p].pc = IF tail >= proc[p].head THEN "ret" ELSE "pop_cas"]
    /\ UNCHANGED <<head, tail, buffer>>

\* atomic.CompareAndSwapUint64(&q.tail, tail, tail+1); index := tail & q.mask
PopCas(p) ==
    /\ proc[p].pc = "pop_cas"
    /\ IF tail = proc[p].tail
       THEN /\ tail' = proc[p].tail + 1
            /\ proc' = [proc EXCEPT ![p].index = BitAnd(proc[p].tail, Mask),
                                    ![p].pc = "pop_load"]
       ELSE /\ tail' = tail
            /\ proc' = [proc EXCEPT ![p].pc = "pop_head"]
    /\ UNCHANGED <<head, buffer>>

\* item := atomic.LoadPointer(&q.buffer[index]); loops while item == nil
PopLoad(p) ==
    /\ proc[p].pc = "pop_load"
    /\ proc' = [proc EXCEPT ![p].item = buffer[proc[p].index],
                            ![p].pc = IF buffer[proc[p].index] # NIL
                                      THEN "pop_clear" ELSE "pop_load"]
    /\ UNCHANGED <<head, tail, buffer>>

\* atomic.StorePointer(&q.buffer[index], nil); return item
PopClear(p) ==
    /\ proc[p].pc = "pop_clear"
    /\ buffer' = [buffer EXCEPT ![proc[p].index] = NIL]
    /\ proc' = [proc EXCEPT ![p].pc = "ret"]
    /\ UNCHANGED <<head, tail>>

\* ---- BatchPop(max) ----
\* if max <= 0 return nil
BeginBatchPop(p, max) ==
    /\ proc[p].pc = "idle"
    /\ proc' = [proc EXCEPT ![p] = [Idle EXCEPT !.pc = IF max <= 0 THEN "ret" ELSE "batch_head",
                                                !.op = "BatchPop", !.count = max,
                                                !.max = max]]

BatchLoadHead(p) ==
    /\ proc[p].pc = "batch_head"
    /\ proc' = [proc EXCEPT ![p].head = head, ![p].pc = "batch_tail"]
    /\ UNCHANGED <<head, tail, buffer>>

\* tail := atomic.LoadUint64(&q.tail); if tail >= head return nil
BatchLoadTail(p) ==
    /\ proc[p].pc = "batch_tail"
    /\ proc' = [proc EXCEPT ![p].tail = tail,
                            ![p].pc = IF tail >= proc[p].head THEN "ret" ELSE "batch_cas"]
    /\ UNCHANGED <<head, tail, buffer>>

\* a BatchPop that takes all that is available
batchAll(available, max) == available

\* count := available; if count > uint64(max) { count = uint64(max) }
batchCount(available, max) == min(available, max)

\* count := min(head-tail, max); CAS(&q.tail, tail, tail+count).  The local
\* count holds max until the CAS succeeds.
BatchCas(p) ==
    /\ proc[p].pc = "batch_cas"
    /\ LET n == batchCount(proc[p].head - proc[p].tail, proc[p].count)
       IN  IF tail = proc[p].tail
           THEN /\ tail' = proc[p].tail + n
                /\ proc' = [proc EXCEPT ![p].count = n, ![p].i = 0, ![p].pc = "batch_swap"]
           ELSE /\ tail' = tail
                /\ proc' = [proc EXCEPT ![p].pc = "batch_head"]
    /\ UNCHANGED <<head, buffer>>

\* item := atomic.SwapPointer(&q.buffer[(tail+i) & mask], nil); a nil item
\* is retried after runtime.Gosched(); after count items: return items
BatchSwap(p) ==
    /\ proc[p].pc = "batch_swap"
    /\ LET index == BitAnd(proc[p].tail + proc[p].i, Mask)
           item == buffer[index]
           last == proc[p].i + 1 = proc[p].count
       IN  IF item # NIL
           THEN /\ buffer' = [buffer EXCEPT ![index] = NIL]
                /\ proc' = [proc EXCEPT ![p].items = Append(proc[p].items, item),
                                        ![p].i = proc[p].i + 1,
                                        ![p].pc = IF last THEN "ret" ELSE "batch_swap"]
           ELSE /\ buffer' = buffer
                /\ proc' = proc
    /\ UNCHANGED <<head, tail>>

\* RingBuffer.Size()
Size == IF head >= tail THEN head - tail ELSE 0

\* no goroutine is inside a call on the ring
AllIdle == \A p \in Procs : proc[p].pc = "idle"

\* RingBuffer.IsFull()
IsFull == Size >= capacity

\* ------------------------------------------------------------------------
\* MatchingEngine.ProcessOrder and the worker's drain of the ingress ring,
\* one access to shared state per step.  The engine has one configured
\* symbol; the ring variables above are its ingress ring inputQueues[symbol].
\* call[p] holds the ProcessOrder call goroutine p is running:
\*   pc        "mark", "lookup", "state", "push", "unmark", "unstate";
\*             "batch" for a worker in processBatch; "idle" for none
\*   id, symbol  order.ID and order.Symbol
\*   hadSpace  history: whether the ring had room (head-tail < capacity)
\*             at the step where Push decided between full and not full
\* ------------------------------------------------------------------------
Symbol == "BTCUSDT"          \* the configured symbol
Symbols == {Symbol, "NONE"}  \* the symbols callers pass
OrderIDs == 1..MaxIDs
Workers == {NumProcs}        \* the goroutines running MatchingWorker.Run
Callers == Procs \ Workers   \* the goroutines calling ProcessOrder

ErrNone == "nil"
ErrDuplicateOrder == "duplicate order"
ErrSymbolNotFound == "symbol not found"
ErrQueueFull == "queue full"
OrderStatusPending == 0
OrderStatusPartial == 1
OrderStatusFilled == 2
OrderStatusCancelled == 3

NoCall == [pc |-> "idle", id |-> 0, symbol |-> "", hadSpace |-> TRUE, after |-> 0]

\* a rollback that leaves the idempotency mark in place
processedKeep(marks, id) == marks

\* sync.Map.Delete on processed
processedDelete(marks, id) == marks \ {id}

ErrEngineAlreadyStarted == "matching engine already started"

\* the goroutines calling Start and Stop
LifeCallers == 1..NumLifeCallers

NoLifeCall == [op |-> "none", pc |-> "idle", err |-> ErrNone]

\* sync.Map.Delete on orderStates
orderStatesDelete(states, id) == [k \in (DOMAIN states) \ {id} |-> states[k]]

\* return from ProcessOrder with err
Return(p, err) ==
    /\ returned' = Append(returned, [id |-> call[p].id, symbol |-> call[p].symbol,
                                     err |-> err, hadSpace |-> call[p].hadSpace])
    /\ call' = [call EXCEPT ![p] = NoCall]

\* if _, exists := e.processed.LoadOrStore(order.ID, true); exists
ProcessMark(p) ==
    /\ call[p].pc = "mark"
    /\ IF call[p].id \in processed
       THEN Return(p, ErrDuplicateOrder) /\ UNCHANGED processed
       ELSE /\ processed' = processed \cup {call[p].id}
            /\ call' = [call EXCEPT ![p].pc = "lookup"]
            /\ UNCHANGED returned
    /\ UNCHANGED <<orderStates, proc>>

\* queue, exists := e.inputQueues[order.Symbol]; if !exists: roll the mark back
ProcessLookup(p) ==
    /\ call[p].pc = "lookup"
    /\ IF call[p].symbol # Symbol
       THEN /\ processed' = processedDelete(processed, call[p].id)
            /\ Return(p, ErrSymbolNotFound)
       ELSE /\ call' = [call EXCEPT ![p].pc = "state"]
            /\ UNCHANGED <<processed, returned>>
    /\ UNCHANGED <<orderStates, proc>>

\* e.orderStates.Store(order.ID, &OrderState{...}); orderPtr := copy of the
\* order from the pool; queue.Push(orderPtr) begins
ProcessState(p) ==
    /\ call[p].pc = "state"
    /\ orderStates' = [k \in (DOMAIN orderStates) \cup {call[p].id} |->
                          IF k = call[p].id
                          THEN [OrderID |-> k, Symbol |-> call[p].symbol,
                                Status |-> OrderStatusPending, FilledQuantity |-> 0]
                          ELSE orderStates[k]]
    /\ BeginPush(p, call[p].id)
    /\ call' = [call EXCEPT ![p].pc = "push", ![p].after = Len(enqueued)]
    /\ UNCHANGED <<processed, returned>>

\* queue.Push returned: true -> return the result, nil error;
\* false -> types.PutOrderToPool(orderPtr) and the rollback begins
ProcessPushed(p) ==
    /\ call[p].pc = "push"
    /\ proc[p].pc = "ret"
    /\ proc' = [proc EXCEPT ![p] = Idle]
    /\ IF proc[p].ok
       THEN /\ Return(p, ErrNone)
            /\ enqueued' = Append(enqueued, call[p].id)
            /\ began' = Append(began, call[p].after)
       ELSE /\ call' = [call EXCEPT ![p].pc = "unmark"]
            /\ UNCHANGED <<returned, enqueued, began>>
    /\ UNCHANGED <<processed, orderStates>>

\* e.processed.Delete(order.ID)
ProcessUnmark(p) ==
    /\ call[p].pc = "unmark"
    /\ processed' = processedDelete(processed, call[p].id)
    /\ call' = [call EXCEPT ![p].pc = "unstate"]
    /\ UNCHANGED <<orderStates, returned, proc>>

\* e.orderStates.Delete(order.ID); return nil, ErrQueueFull
ProcessUnstate(p) ==
    /\ call[p].pc = "unstate"
    /\ orderStates' = orderStatesDelete(orderStates, call[p].id)
    /\ Return(p, ErrQueueFull)
    /\ UNCHANGED <<processed, proc>>

\* ------------------------------------------------------------------------
\* Initial states
\* ------------------------------------------------------------------------
InitBook ==
    /\ buys = EmptyTree
    /\ sells = EmptyTree
    /\ orderMap = <<>>
    /\ seqMaps = <<>>
    /\ obj = <<>>
    /\ version = 0
    /\ trades = <<>>
    /\ tradeLevel = <<>>
    /\ placed = <<>>
    /\ cancelled = {}
    /\ lastOp = [op |-> "New", ok |-> TRUE]

InitRing(size) ==
    /\ head = 0
    /\ tail = 0
    /\ capacity = NewRingBufferCapacity(size)
    /\ requested = size
    /\ buffer = [i \in 0..(NewRingBufferCapacity(size) - 1) |-> NIL]
    /\ proc = [p \in Procs |-> Idle]
    /\ issued = 0
    /\ pushed = {}
    /\ popped = <<>>

InitPipe ==
    /\ pool = <<>>
    /\ inputQueue = <<>>
    /\ working = 0
    /\ outputQueue = <<>>
    /\ handled = {}

\* NewMatchingEngine: not started, no task launched
InitLife ==
    /\ started = FALSE
    /\ mu = 0
    /\ wg = 0
    /\ tasks = <<>>
    /\ lcall = [p \in LifeCallers |-> NoLifeCall]
    /\ lcalls = 0

\* RingBuffer.Size has not been called
InitSize == sizing = [pc |-> "idle", head |-> 0, ret |-> 0]

\* Order.IsValid has not been called
InitValid == validated = <<>>

\* RangeBetween has not been called
InitRange == ranged = <<>>

\* ------------------------------------------------------------------------
\* OrderQueue: a ring of order pointers that doubles when full.  An order is
\* its ID; NIL is the nil pointer.
\* ------------------------------------------------------------------------
\* len(oq.orders)
ordersLen(q) == Cardinality(DOMAIN q.orders)

\* NewOrderQueue(capacity)
NewOrderQueue(queueCapacity) ==
    [orders |-> [i \in 0..(queueCapacity - 1) |-> NIL], head |-> 0, tail |-> 0, size |-> 0]

\* a doubling that copies the array as it lies, without rotating it to head
copyOrders(q) ==
    LET n == ordersLen(q)
    IN  [orders |-> [k \in 0..(2 * n - 1) |-> IF k < n THEN q.orders[k] ELSE NIL],
         head |-> 0, tail |-> q.size, size |-> q.size]

\* Push: the doubled array with the orders copied from head on, then those before head
growOrders(q) ==
    LET n == ordersLen(q)
    IN  [orders |-> [k \in 0..(2 * n - 1) |->
                        IF k < n - q.head THEN q.orders[q.head + k]
                        ELSE IF k < n THEN q.orders[k - (n - q.head)]
                        ELSE NIL],
         head |-> 0, tail |-> q.size, size |-> q.size]

\* OrderQueue.Push(order)
OrderQueuePush(q, order) ==
    LET room == IF q.size = ordersLen(q) THEN growOrders(q) ELSE q
    IN  [room EXCEPT !.orders[room.tail] = order,
                     !.tail = (room.tail + 1) % ordersLen(room),
                     !.size = room.size + 1]

\* OrderQueue.Pop(): the queue afterwards
OrderQueuePop(q) ==
    IF q.size = 0 THEN q
    ELSE [q EXCEPT !.orders[q.head] = NIL,
                   !.head = (q.head + 1) % ordersLen(q),
                   !.size = q.size - 1]

\* OrderQueue.Peek(), which is also what Pop returns
OrderQueuePeek(q) == IF q.size = 0 THEN NIL ELSE q.orders[q.head]

\* Remove: the loop that moves the later elements one slot towards the head
RECURSIVE shiftOrders(_, _, _)
shiftOrders(q, orders, j) ==
    IF j >= q.size - 1 THEN orders
    ELSE LET srcIdx == (q.head + j + 1) % ordersLen(q)
             dstIdx == (q.head + j) % ordersLen(q)
         IN  shiftOrders(q, [orders EXCEPT ![dstIdx] = orders[srcIdx]], j + 1)

\* Remove: the first position i in 0..size-1 whose order has the id, or size
RECURSIVE findOrder(_, _, _)
findOrder(q, orderID, i) ==
    IF i >= q.size THEN q.size
    ELSE IF q.orders[(q.head + i) % ordersLen(q)] = orderID THEN i
    ELSE findOrder(q, orderID, i + 1)

\* OrderQueue.Remove(orderID): what it returns
OrderQueueRemoves(q, orderID) == findOrder(q, orderID, 0) < q.size

\* OrderQueue.Remove(orderID): the queue afterwards
OrderQueueRemove(q, orderID) ==
    LET i == findOrder(q, orderID, 0)
        n == ordersLen(q)
    IN  IF i >= q.size THEN q
        ELSE [q EXCEPT !.orders = shiftOrders(q, [q.orders EXCEPT ![(q.head + i) % n] = NIL], i),
                       !.tail = (q.tail - 1 + n) % n,
                       !.size = q.size - 1]

\* OrderQueue.Size()
OrderQueueSize(q) == q.size

InitQueue(queueCapacity) ==
    /\ oq = NewOrderQueue(queueCapacity)
    /\ fifo = <<>>
    /\ oqCall = [op |-> "New", arg |-> queueCapacity, ret |-> NIL]
    /\ oqPushes = 0

\* no MatchResult has been taken from the pool
InitResults ==
    /\ egress = <<>>
    /\ resultLog = <<>>

\* the snapshotter has taken no snapshot
InitSnapshotter ==
    /\ snapshotter = [pc |-> "idle"]
    /\ snapshot = <<>>

\* the worker is at the select of Run, its context is live, its queue empty
InitWorker ==
    /\ ctxDone = FALSE
    /\ ingress = <<>>
    /\ runner = [pc |-> "select", orders |-> <<>>]
    /\ taken = <<>>
    /\ passed = <<>>

InitExt ==
    /\ InitSize /\ InitValid /\ InitRange /\ InitQueue(1) /\ InitResults /\ InitSnapshotter
    /\ InitWorker

InitSkip(reverse) ==
    /\ skipTree = NewSkipTree(SkipMaxLevel, reverse)
    /\ shadow = EmptyTree

InitEngine ==
    /\ processed = {}
    /\ orderStates = <<>>
    /\ call = [p \in Procs |-> NoCall]
    /\ submitted = 0
    /\ returned = <<>>
    /\ enqueued = <<>>
    /\ began = <<>>
    /\ drained = <<>>

\* ------------------------------------------------------------------------
\* SpecBook: any sequence of Match and CancelOrder calls on one book.  The
\* callers pass valid orders (Order.IsValid) with fresh ids 1, 2, 3, ...;
\* a market order carries price 0.
\* ------------------------------------------------------------------------
NewOrder(id, side, type, price, qty) ==
    [ID |-> id, Price |-> price, Quantity |-> qty, Side |-> side, Type |-> type]

MatchLimit ==
    /\ Len(obj) < MaxOrders
    /\ \E side \in {SideBuy, SideSell}, price \in Prices, qty \in 1..MaxQty :
          Match(NewOrder(Len(obj) + 1, side, TypeLimit, price, qty))
    /\ UNCHANGED <<ringVars, engineVars, pipeVars, lifeVars, skipVars, extVars>>

MatchMarket ==
    /\ Len(obj) < MaxOrders
    /\ \E side \in {SideBuy, SideSell}, qty \in 1..MaxQty :
          Match(NewOrder(Len(obj) + 1, side, TypeMarket, 0, qty))
    /\ UNCHANGED <<ringVars, engineVars, pipeVars, lifeVars, skipVars, extVars>>

Cancel ==
    /\ \E id \in 1..Len(obj) : CancelSucceeds(id) /\ CancelOrder(id)
    /\ UNCHANGED <<ringVars, engineVars, pipeVars, lifeVars, skipVars, extVars>>

CancelMiss ==
    /\ \E id \in 1..Len(obj) : ~CancelSucceeds(id) /\ CancelOrder(id)
    /\ UNCHANGED <<ringVars, engineVars, pipeVars, lifeVars, skipVars, extVars>>

\* a comparison that ignores the direction of the tree
compareAscending(a, b, reverse) == IF a > b THEN 1 ELSE IF a < b THEN 0 - 1 ELSE 0

\* SkipTree.compare: negative when key a comes before key b in the list; a
\* reverse tree (the bids) lists the higher price first
compare(a, b, reverse) ==
    IF a > b THEN (IF reverse THEN 0 - 1 ELSE 1)
    ELSE IF a < b THEN (IF reverse THEN 1 ELSE 0 - 1)
    ELSE 0

\* the chain header.forward[0] of a tree: its levels in the order Insert
\* keeps, each key after all keys that compare lower
RECURSIVE Forward(_, _)
Forward(tree, reverse) ==
    IF DOMAIN tree = {} THEN <<>>
    ELSE LET first == CHOOSE p \in DOMAIN tree :
                          \A q \in DOMAIN tree : compare(p, q, reverse) <= 0
         IN  <<tree[first]>> \o Forward(SkipRemove(tree, first), reverse)

\* the loop of GetTopLevels: "for current != nil && count < limit"
RECURSIVE walkForward(_, _, _)
walkForward(nodes, count, limit) ==
    IF nodes # <<>> /\ count < limit
    THEN <<Head(nodes)>> \o walkForward(Tail(nodes), count + 1, limit)
    ELSE <<>>

\* SkipTree.GetTopLevels(limit): nil for an empty tree
GetTopLevels(tree, reverse, limit) ==
    IF SkipLen(tree) = 0 THEN <<>> ELSE walkForward(Forward(tree, reverse), 0, limit)

\* HybridOrderBook.getTopLevels(tree, depth)
getTopLevels(tree, reverse, depth) ==
    LET levels == GetTopLevels(tree, reverse, depth)
    IN  [i \in 1..Len(levels) |->
            [Price |-> levels[i].Price, Quantity |-> levels[i].TotalQty,
             Count |-> Len(levels[i].Orders)]]

\* HybridOrderBook.GetSnapshot(depth), without the wall-clock time
GetSnapshot(depth) ==
    [Symbol |-> Symbol,
     Bids |-> getTopLevels(buys, TRUE, depth),
     Asks |-> getTopLevels(sells, FALSE, depth)]

\* the read operations of the book: they take the read lock and return a
\* value computed from the ladders or a copy of the statistics
ReadOps == {"GetSnapshot", "GetBestBid", "GetBestAsk", "GetStats"}

BookRead ==
    /\ \E op \in ReadOps : lastOp' = [op |-> op, ok |-> TRUE]
    /\ UNCHANGED <<buys, sells, orderMap, seqMaps, obj, version, trades, tradeLevel,
                   placed, cancelled>>
    /\ UNCHANGED <<ringVars, engineVars, pipeVars, lifeVars, skipVars, extVars>>

Init ==
    InitBook /\ InitRing(RingSize) /\ InitEngine /\ InitPipe /\ InitLife /\ InitSkip(TRUE) /\ InitExt

NextBook == MatchLimit \/ MatchMarket \/ Cancel \/ CancelMiss \/ BookRead

SpecBook == Init /\ [][NextBook]_vars

\* ------------------------------------------------------------------------
\* SpecLevel: longer runs on one price level: every limit order carries the
\* price LevelPrice and every order the quantity 1
\* ------------------------------------------------------------------------
LevelMatchLimit ==
    /\ Len(obj) < MaxLevelOrders
    /\ \E side \in {SideBuy, SideSell} :
          Match(NewOrder(Len(obj) + 1, side, TypeLimit, LevelPrice, 1))
    /\ UNCHANGED <<ringVars, engineVars, pipeVars, lifeVars, skipVars, extVars>>

LevelMatchMarket ==
    /\ Len(obj) < MaxLevelOrders
    /\ \E side \in {SideBuy, SideSell} :
          Match(NewOrder(Len(obj) + 1, side, TypeMarket, 0, 1))
    /\ UNCHANGED <<ringVars, engineVars, pipeVars, lifeVars, skipVars, extVars>>

NextLevel == LevelMatchLimit \/ LevelMatchMarket \/ Cancel \/ CancelMiss

SpecLevel == Init /\ [][NextLevel]_vars

\* ------------------------------------------------------------------------
\* SpecRing: NumProcs goroutines call Push (with a new item each time), Pop
\* and BatchPop on one ring, in any interleaving of their atomic steps
\* ------------------------------------------------------------------------
RingPush ==
    /\ issued < MaxPushes
    /\ \E p \in Procs : BeginPush(p, issued + 1)
    /\ issued' = issued + 1
    /\ UNCHANGED <<head, tail, capacity, requested, buffer, pushed, popped, bookVars, engineVars, pipeVars, lifeVars, skipVars, extVars>>

RingPop ==
    /\ \E p \in Procs : BeginPop(p)
    /\ UNCHANGED <<head, tail, capacity, requested, buffer, issued, pushed, popped, bookVars, engineVars, pipeVars, lifeVars, skipVars, extVars>>

RingBatchPop ==
    /\ \E p \in Procs, max \in 0..MaxBatch : BeginBatchPop(p, max)
    /\ UNCHANGED <<head, tail, capacity, requested, buffer, issued, pushed, popped, bookVars, engineVars, pipeVars, lifeVars, skipVars, extVars>>

PushStep ==
    /\ \E p \in Procs :
          PushLoadHead(p) \/ PushLoadTail(p) \/ PushCas(p) \/ PushWait(p) \/ PushStore(p)
    /\ UNCHANGED <<capacity, requested, issued, pushed, popped, bookVars, engineVars, pipeVars, lifeVars, skipVars, extVars>>

PopStep ==
    /\ \E p \in Procs :
          PopLoadHead(p) \/ PopLoadTail(p) \/ PopCas(p) \/ PopLoad(p) \/ PopClear(p)
    /\ UNCHANGED <<capacity, requested, issued, pushed, popped, bookVars, engineVars, pipeVars, lifeVars, skipVars, extVars>>

BatchStep ==
    /\ \E p \in Procs :
          BatchLoadHead(p) \/ BatchLoadTail(p) \/ BatchCas(p) \/ BatchSwap(p)
    /\ UNCHANGED <<capacity, requested, issued, pushed, popped, bookVars, engineVars, pipeVars, lifeVars, skipVars, extVars>>

\* the call of p returns to its caller
ReturnOf(p) ==
    /\ proc[p].pc = "ret"
    /\ pushed' = IF proc[p].op = "Push" /\ proc[p].ok
                  THEN pushed \cup {proc[p].item} ELSE pushed
    /\ popped' = IF proc[p].op = "Pop" /\ proc[p].item # NIL
                  THEN Append(popped, proc[p].item)
                  ELSE IF proc[p].op = "BatchPop" THEN popped \o proc[p].items
                  ELSE popped
    /\ proc' = [proc EXCEPT ![p] = Idle]

RingReturn ==
    /\ \E p \in Procs : ReturnOf(p)
    /\ UNCHANGED <<head, tail, capacity, requested, buffer, issued, bookVars, engineVars, pipeVars, lifeVars, skipVars, extVars>>

NextRing ==
    RingPush \/ RingPop \/ RingBatchPop \/ PushStep \/ PopStep \/ BatchStep \/ RingReturn

SpecRing == Init /\ [][NextRing]_vars

\* ------------------------------------------------------------------------
\* SpecRingSize: SpecRing with one more goroutine that calls Size(); its two
\* atomic loads are separate steps, so the ring may move between them.
\* ------------------------------------------------------------------------
\* what Size() returns without its test of head >= tail: the unsigned difference
unsignedDifference(h, t) == (h - t) % Word

\* Size(): if head >= tail { return head - tail }; return 0
sizeResult(h, t) == IF h >= t THEN h - t ELSE 0

\* Size(): head := atomic.LoadUint64(&q.head)
SizeLoadHead ==
    /\ sizing.pc = "idle"
    /\ sizing' = [sizing EXCEPT !.pc = "loaded", !.head = head]
    /\ UNCHANGED <<coreVars, validVars, rangeVars, queueVars, resultVars, snapVars, workerVars>>

\* Size(): tail := atomic.LoadUint64(&q.tail), and the return
SizeLoadTail ==
    /\ sizing.pc = "loaded"
    /\ sizing' = [sizing EXCEPT !.pc = "idle", !.ret = sizeResult(sizing.head, tail)]
    /\ UNCHANGED <<coreVars, validVars, rangeVars, queueVars, resultVars, snapVars, workerVars>>

NextRingSize ==
    \/ RingPush \/ RingPop \/ RingBatchPop \/ PushStep \/ PopStep \/ BatchStep \/ RingReturn
    \/ SizeLoadHead \/ SizeLoadTail

SpecRingSize == Init /\ [][NextRingSize]_vars

\* ------------------------------------------------------------------------
\* SpecValid: Order.IsValid on orders with any field values.  Price is a
\* float64: a number or NaN, and every ordered comparison with NaN is false.
\* ------------------------------------------------------------------------
Number(v) == [nan |-> FALSE, v |-> v]
NaN == [nan |-> TRUE, v |-> 0]

\* float64 a <= b
floatLessEq(a, b) == ~a.nan /\ ~b.nan /\ a.v <= b.v

\* float64 a > b
floatGreater(a, b) == ~a.nan /\ ~b.nan /\ a.v > b.v

\* the orders IsValid is called on: Symbol string, Quantity int64, Side and
\* Type int8, Price float64
ValidSymbols == {"", Symbol}
ValidQuantities == {0 - 1, 0, 1, MaxQty}
ValidEnums == {0 - 1, 0, 1, 2, 3}
ValidPrices == {Number(0 - 1), Number(0), Number(1), NaN}
AnyOrders ==
    [Symbol : ValidSymbols, Quantity : ValidQuantities, Side : ValidEnums,
     Type : ValidEnums, Price : ValidPrices]

\* Order.IsValid()
IsValid(o) ==
    IF o.Symbol = "" THEN FALSE
    ELSE IF o.Quantity <= 0 THEN FALSE
    ELSE IF o.Side # SideBuy /\ o.Side # SideSell THEN FALSE
    ELSE IF o.Type # TypeLimit /\ o.Type # TypeMarket THEN FALSE
    ELSE IF o.Type = TypeLimit /\ floatLessEq(o.Price, Number(0)) THEN FALSE
    ELSE TRUE

\* a call of IsValid on any order
IsValidCall ==
    /\ \E o \in AnyOrders : validated' = <<o, IsValid(o)>>
    /\ UNCHANGED <<coreVars, sizeVars, rangeVars, queueVars, resultVars, snapVars, workerVars>>

NextValid == IsValidCall

SpecValid == Init /\ [][NextValid]_vars

\* ------------------------------------------------------------------------
\* SpecRingSeq: sequential use of a ring built with a size in 1..MaxSeqSize:
\* a call of Push, Pop or BatchPop begins only when no call is running
\* ------------------------------------------------------------------------
NewRingSeq ==
    /\ InitBook
    /\ \E size \in 1..MaxSeqSize : InitRing(size)
    /\ InitEngine
    /\ InitPipe
    /\ InitLife
    /\ InitSkip(TRUE) /\ InitExt

SeqPush ==
    /\ AllIdle
    /\ issued < MaxSeqPushes
    /\ \E p \in Procs : BeginPush(p, issued + 1)
    /\ issued' = issued + 1
    /\ UNCHANGED <<head, tail, capacity, requested, buffer, pushed, popped, bookVars,
                   engineVars, pipeVars, lifeVars, skipVars, extVars>>

SeqPop ==
    /\ AllIdle
    /\ \E p \in Procs : BeginPop(p)
    /\ UNCHANGED <<head, tail, capacity, requested, buffer, issued, pushed, popped,
                   bookVars, engineVars, pipeVars, lifeVars, skipVars, extVars>>

SeqBatchPop ==
    /\ AllIdle
    /\ \E p \in Procs, max \in (0 - 1)..MaxSeqBatch : BeginBatchPop(p, max)
    /\ UNCHANGED <<head, tail, capacity, requested, buffer, issued, pushed, popped,
                   bookVars, engineVars, pipeVars, lifeVars, skipVars, extVars>>

NextRingSeq ==
    SeqPush \/ SeqPop \/ SeqBatchPop \/ PushStep \/ PopStep \/ BatchStep \/ RingReturn

SpecRingSeq == NewRingSeq /\ [][NextRingSeq]_vars

\* ------------------------------------------------------------------------
\* SpecNewRing: NewRingBuffer called with the sizes 1..MaxSize, the size of
\* a price level's queue, and the sizes around the largest power of two a
\* word can hold
\* ------------------------------------------------------------------------
Sizes ==
    (1..MaxSize) \cup {LevelQueueSize}
        \cup {Word \div 2 - 1, Word \div 2, Word \div 2 + 1, Word - 1}

NewRingBuffer ==
    /\ \E size \in Sizes :
          /\ capacity' = NewRingBufferCapacity(size)
          /\ requested' = size
          /\ buffer' = [i \in 0..(NewRingBufferCapacity(size) - 1) |-> NIL]
    /\ head' = 0
    /\ tail' = 0
    /\ proc' = [p \in Procs |-> Idle]
    /\ issued' = 0
    /\ pushed' = {}
    /\ popped' = <<>>
    /\ UNCHANGED <<bookVars, engineVars, pipeVars, lifeVars, skipVars, extVars>>

NextNewRing == NewRingBuffer

SpecNewRing == Init /\ [][NextNewRing]_vars

\* ------------------------------------------------------------------------
\* SpecSkip: Insert and Remove on one SkipTree of either orientation, with
\* prices in SkipPrices, any node heights, and the level inserted for a price
\* carrying that price
\* ------------------------------------------------------------------------
NewSkipTreeInit ==
    /\ InitBook
    /\ InitRing(RingSize)
    /\ InitEngine
    /\ InitPipe
    /\ InitLife
    /\ \E reverse \in BOOLEAN : InitSkip(reverse)
    /\ InitExt

SkipTreeInsert ==
    /\ \E price \in SkipPrices, qty \in SkipQtys, newLevel \in 0..SkipMaxLevel :
          /\ skipTree' = Insert(skipTree, price, <<price, qty>>, newLevel)
          /\ shadow' = SkipInsert(shadow, price, <<price, qty>>)
    /\ UNCHANGED <<bookVars, ringVars, engineVars, pipeVars, lifeVars, extVars>>

SkipTreeRemove ==
    /\ \E price \in SkipPrices :
          /\ skipTree' = Remove(skipTree, price)
          /\ shadow' = SkipRemove(shadow, price)
    /\ UNCHANGED <<bookVars, ringVars, engineVars, pipeVars, lifeVars, extVars>>

NextSkip == SkipTreeInsert \/ SkipTreeRemove

SpecSkip == NewSkipTreeInit /\ [][NextSkip]_vars

\* ------------------------------------------------------------------------
\* SpecOrderQueue: Push, Pop and Remove on one OrderQueue built with a
\* capacity in 1..MaxQueueCapacity; the orders pushed have the ids 1, 2, ...
\* ------------------------------------------------------------------------
NewOrderQueueInit ==
    /\ InitBook
    /\ InitRing(RingSize)
    /\ InitEngine
    /\ InitPipe
    /\ InitLife
    /\ InitSkip(TRUE)
    /\ InitSize
    /\ InitValid
    /\ InitRange
    /\ InitResults
    /\ InitSnapshotter
    /\ InitWorker
    /\ \E queueCapacity \in 1..MaxQueueCapacity : InitQueue(queueCapacity)

\* a sequence without its first element equal to x
RECURSIVE Without(_, _)
Without(s, x) ==
    IF s = <<>> THEN <<>>
    ELSE IF Head(s) = x THEN Tail(s)
    ELSE <<Head(s)>> \o Without(Tail(s), x)

QueueCallPush ==
    /\ oqPushes < MaxQueuePushes
    /\ oqPushes' = oqPushes + 1
    /\ oq' = OrderQueuePush(oq, oqPushes + 1)
    /\ fifo' = Append(fifo, oqPushes + 1)
    /\ oqCall' = [op |-> "Push", arg |-> oqPushes + 1, ret |-> NIL]
    /\ UNCHANGED <<coreVars, sizeVars, validVars, rangeVars, resultVars, snapVars, workerVars>>

QueueCallPop ==
    /\ oq' = OrderQueuePop(oq)
    /\ fifo' = IF fifo = <<>> THEN fifo ELSE Tail(fifo)
    /\ oqCall' = [op |-> "Pop", arg |-> NIL, ret |-> OrderQueuePeek(oq)]
    /\ UNCHANGED <<coreVars, sizeVars, validVars, rangeVars, resultVars, snapVars, workerVars, oqPushes>>

QueueCallRemove ==
    /\ \E orderID \in 1..MaxQueuePushes :
          /\ oq' = OrderQueueRemove(oq, orderID)
          /\ fifo' = Without(fifo, orderID)
          /\ oqCall' = [op |-> "Remove", arg |-> orderID,
                        ret |-> IF OrderQueueRemoves(oq, orderID) THEN 1 ELSE 0]
    /\ UNCHANGED <<coreVars, sizeVars, validVars, rangeVars, resultVars, snapVars, workerVars, oqPushes>>

NextOrderQueue == QueueCallPush \/ QueueCallPop \/ QueueCallRemove

SpecOrderQueue == NewOrderQueueInit /\ [][NextOrderQueue]_vars

\* ------------------------------------------------------------------------
\* SpecResults: the worker's processOrder (Match, push of the result to the
\* egress ring) and the result processor (BatchPop, handleMatchResult), with
\* an egress ring of capacity EgressCapacity.  resultLog[h] follows the
\* MatchResult that Match took from the pool for the order with handle h.
\* ------------------------------------------------------------------------
\* types.PutMatchResultToPool(result)
PutMatchResultToPool(log, h) == [log EXCEPT ![h].puts = log[h].puts + 1]

\* handleMatchResult(result), as far as the result object goes: it records
\* metrics and the depth, and does not put the result back
handleResult(log, h) == [log EXCEPT ![h].at = "handled"]

\* processOrder after Match returned result h with the trades ts
sendResult(h, ts) ==
    LET fetched == Append(resultLog, [at |-> "worker", puts |-> 0])
    IN  IF Len(ts) > 0 \/ obj'[h].Quantity > 0
        THEN IF Len(egress) < EgressCapacity
             THEN /\ egress' = Append(egress, h)
                  /\ resultLog' = [fetched EXCEPT ![h].at = "queued"]
             ELSE /\ egress' = egress
                  /\ resultLog' = PutMatchResultToPool([fetched EXCEPT ![h].at = "dropped"], h)
        ELSE /\ egress' = egress
             /\ resultLog' = PutMatchResultToPool([fetched EXCEPT ![h].at = "empty"], h)

\* MatchingWorker.processOrder(symbol, order)
ResultProcessOrder ==
    /\ Len(obj) < MaxResultOrders
    /\ \E side \in {SideBuy, SideSell}, qty \in 0..MaxQty :
          /\ Match(NewOrder(Len(obj) + 1, side, TypeLimit, LevelPrice, qty))
          /\ sendResult(Len(obj) + 1, SubSeq(trades', Len(trades) + 1, Len(trades')))
    /\ UNCHANGED <<ringVars, engineVars, pipeVars, lifeVars, skipVars, sizeVars, validVars,
                   rangeVars, queueVars, snapVars, workerVars>>

\* processResults: the handling of the results of one BatchPop, in order
RECURSIVE handleResults(_, _)
handleResults(log, batch) ==
    IF batch = <<>> THEN log
    ELSE handleResults(handleResult(log, Head(batch)), Tail(batch))

\* MatchingEngine.processResults: one round with a non-empty BatchPop
ResultProcessResults ==
    /\ Len(egress) > 0
    /\ LET count == min(Len(egress), EgressBatch)
       IN  /\ resultLog' = handleResults(resultLog, SubSeq(egress, 1, count))
           /\ egress' = SubSeq(egress, count + 1, Len(egress))
    /\ UNCHANGED <<coreVars, sizeVars, validVars, rangeVars, queueVars, snapVars, workerVars>>

NextResults == ResultProcessOrder \/ ResultProcessResults

SpecResults == Init /\ [][NextResults]_vars

\* ------------------------------------------------------------------------
\* SpecSnapshot: the snapshotter goroutine in takeSnapshot while a worker
\* calls Match and CancelOrder on the same book.  GetSnapshot and GetStats
\* each take and release the book's read lock, so each is one step.
\* ------------------------------------------------------------------------
\* stats.OrdersProcessed: updateStats adds one in every Match call
OrdersProcessed == Len(placed)

\* takeSnapshot: obSnapshot := orderBook.GetSnapshot(100)
TakeSnapshotGetSnapshot ==
    /\ snapshotter.pc = "idle"
    /\ snapshotter' = [pc |-> "stats", obSnapshot |-> GetSnapshot(SnapDepth),
                       processed |-> OrdersProcessed, version |-> version]
    /\ UNCHANGED <<coreVars, sizeVars, validVars, rangeVars, queueVars, resultVars, snapshot, workerVars>>

\* takeSnapshot: stats := orderBook.GetStats() and the Snapshot returned
TakeSnapshotGetStats ==
    /\ snapshotter.pc = "stats"
    /\ snapshot' = [Symbol |-> Symbol, Data |-> snapshotter.obSnapshot,
                    Version |-> OrdersProcessed,
                    dataProcessed |-> snapshotter.processed,
                    dataVersion |-> snapshotter.version,
                    statsVersion |-> version]
    /\ snapshotter' = [pc |-> "idle"]
    /\ UNCHANGED <<coreVars, sizeVars, validVars, rangeVars, queueVars, resultVars, workerVars>>

\* the worker: Match of a limit order
SnapshotMatch ==
    /\ Len(obj) < MaxSnapOrders
    /\ \E side \in {SideBuy, SideSell}, qty \in 1..MaxQty :
          Match(NewOrder(Len(obj) + 1, side, TypeLimit, LevelPrice, qty))
    /\ UNCHANGED <<ringVars, engineVars, pipeVars, lifeVars, skipVars, extVars>>

NextSnapshot == TakeSnapshotGetSnapshot \/ TakeSnapshotGetStats \/ SnapshotMatch \/ Cancel

SpecSnapshot == Init /\ [][NextSnapshot]_vars

\* ------------------------------------------------------------------------
\* SpecWorkerStop: one MatchingWorker in Run and processBatch on one input
\* queue, a submitter pushing orders 1, 2, ..., and the cancel() of Stop at
\* any moment.  BatchPop is one step here.
\* ------------------------------------------------------------------------
\* a successful queue.Push of ProcessOrder
WorkerSubmit ==
    /\ Len(taken) + Len(ingress) < MaxStopOrders
    /\ ingress' = Append(ingress, Len(taken) + Len(ingress) + 1)
    /\ UNCHANGED <<coreVars, sizeVars, validVars, rangeVars, queueVars, resultVars, snapVars,
                   ctxDone, runner, taken, passed>>

\* Stop: e.cancel()
WorkerCancel ==
    /\ ~ctxDone
    /\ ctxDone' = TRUE
    /\ UNCHANGED <<coreVars, sizeVars, validVars, rangeVars, queueVars, resultVars, snapVars,
                   ingress, runner, taken, passed>>

\* Run: the select; on default processBatch begins with queue.BatchPop(batchSize),
\* and an empty batch brings the worker back to the select
WorkerSelect ==
    /\ runner.pc = "select"
    /\ IF ctxDone
       THEN /\ runner' = [runner EXCEPT !.pc = "exited"]
            /\ UNCHANGED <<ingress, taken>>
       ELSE LET count == min(Len(ingress), WorkerBatchSize)
                orders == SubSeq(ingress, 1, count)
            IN  /\ ingress' = SubSeq(ingress, count + 1, Len(ingress))
                /\ taken' = taken \o orders
                /\ runner' = [pc |-> IF count = 0 THEN "select" ELSE "batch",
                              orders |-> orders]
    /\ UNCHANGED <<coreVars, sizeVars, validVars, rangeVars, queueVars, resultVars, snapVars,
                   ctxDone, passed>>

\* processBatch: one round of the loop over the popped orders: the select on
\* ctx.Done() returns from processBatch, its default calls processOrder
WorkerOrder ==
    /\ runner.pc = "batch"
    /\ IF ctxDone
       THEN /\ runner' = [pc |-> "select", orders |-> <<>>]
            /\ UNCHANGED passed
       ELSE /\ passed' = Append(passed, Head(runner.orders))
            /\ runner' = [pc |-> IF Len(runner.orders) = 1 THEN "select" ELSE "batch",
                          orders |-> Tail(runner.orders)]
    /\ UNCHANGED <<coreVars, sizeVars, validVars, rangeVars, queueVars, resultVars, snapVars,
                   ctxDone, ingress, taken>>

NextWorkerStop == WorkerSubmit \/ WorkerCancel \/ WorkerSelect \/ WorkerOrder

SpecWorkerStop == Init /\ [][NextWorkerStop]_vars

\* ------------------------------------------------------------------------
\* SpecSkipRange: Insert, Remove and RangeBetween on one SkipTree of either
\* orientation.  ranged holds the RangeBetween call made on the tree as it
\* is now.
\* ------------------------------------------------------------------------
RangeInsert ==
    /\ skipTree.size < MaxRangeSize
    /\ \E price \in SkipPrices, newLevel \in 0..SkipMaxLevel :
          /\ skipTree' = Insert(skipTree, price, <<price, 1>>, newLevel)
          /\ shadow' = SkipInsert(shadow, price, <<price, 1>>)
    /\ ranged' = <<>>
    /\ UNCHANGED <<bookVars, ringVars, engineVars, pipeVars, lifeVars, sizeVars, validVars, queueVars, resultVars, snapVars, workerVars>>

RangeRemove ==
    /\ \E price \in SkipPrices :
          /\ skipTree' = Remove(skipTree, price)
          /\ shadow' = SkipRemove(shadow, price)
    /\ ranged' = <<>>
    /\ UNCHANGED <<bookVars, ringVars, engineVars, pipeVars, lifeVars, sizeVars, validVars, queueVars, resultVars, snapVars, workerVars>>

\* a call RangeBetween(lo, hi, fn) with lo <= hi
RangeBetweenCall ==
    /\ ranged = <<>>
    /\ \E lo \in SkipPrices, hi \in SkipPrices, stopAt \in 0..MaxCallbacks :
          /\ lo <= hi
          /\ ranged' = [lo |-> lo, hi |-> hi, stopAt |-> stopAt,
                        calls |-> RangeBetween(skipTree, lo, hi, stopAt)]
    /\ UNCHANGED <<coreVars, sizeVars, validVars, queueVars, resultVars, snapVars, workerVars>>

NextSkipRange == RangeInsert \/ RangeRemove \/ RangeBetweenCall

SpecSkipRange == NewSkipTreeInit /\ [][NextSkipRange]_vars

\* ------------------------------------------------------------------------
\* SpecRingLive: Push and Pop calls on a ring of capacity 1 by concurrent
\* goroutines.  A goroutine inside a call keeps taking steps (a spin that
\* finds nothing changed is no step); when calls are made is up to the callers
\* ------------------------------------------------------------------------
LivePush ==
    /\ issued < MaxLivePushes
    /\ \E p \in Procs : BeginPush(p, issued + 1)
    /\ issued' = issued + 1
    /\ UNCHANGED <<head, tail, capacity, requested, buffer, pushed, popped, bookVars, engineVars, pipeVars, lifeVars, skipVars, extVars>>

NextRingLive == LivePush \/ RingPop \/ PushStep \/ PopStep \/ RingReturn

SpecRingLive ==
    /\ Init
    /\ [][NextRingLive]_vars
    /\ \A p \in Procs :
          WF_vars(/\ PushLoadHead(p) \/ PushLoadTail(p) \/ PushCas(p) \/ PushWait(p)
                     \/ PushStore(p)
                  /\ UNCHANGED <<capacity, requested, issued, pushed, popped, bookVars, engineVars,
                                 pipeVars, lifeVars, skipVars, extVars>>)
    /\ \A p \in Procs :
          WF_vars(/\ PopLoadHead(p) \/ PopLoadTail(p) \/ PopCas(p) \/ PopLoad(p)
                     \/ PopClear(p)
                  /\ UNCHANGED <<capacity, requested, issued, pushed, popped, bookVars, engineVars,
                                 pipeVars, lifeVars, skipVars, extVars>>)
    /\ \A p \in Procs :
          WF_vars(/\ ReturnOf(p)
                  /\ UNCHANGED <<head, tail, capacity, requested, buffer, issued, bookVars, engineVars,
                                 pipeVars, lifeVars, skipVars, extVars>>)

\* ------------------------------------------------------------------------
\* SpecEngine: the callers call ProcessOrder with ids 1..MaxIDs, on the
\* configured symbol or an unknown one, and the worker runs processBatch on
\* the ingress ring, in any interleaving of their steps.  The matching a
\* worker does with a popped order is SpecBook's Match; here the order is
\* recorded in drained.
\* ------------------------------------------------------------------------
EngineSubmit ==
    /\ submitted < MaxCalls
    /\ \E p \in Callers, id \in OrderIDs, symbol \in Symbols :
          /\ call[p].pc = "idle"
          /\ call' = [call EXCEPT ![p] = [pc |-> "mark", id |-> id, symbol |-> symbol,
                                          hadSpace |-> TRUE, after |-> 0]]
    /\ submitted' = submitted + 1
    /\ UNCHANGED <<processed, orderStates, returned, enqueued, began, drained, ringVars, bookVars, pipeVars, lifeVars, skipVars, extVars>>

EngineMark ==
    /\ \E p \in Procs : ProcessMark(p)
    /\ UNCHANGED <<submitted, enqueued, began, drained, head, tail, capacity, requested, buffer, issued,
                   pushed, popped, bookVars, pipeVars, lifeVars, skipVars, extVars>>

EngineLookup ==
    /\ \E p \in Procs : ProcessLookup(p)
    /\ UNCHANGED <<submitted, enqueued, began, drained, head, tail, capacity, requested, buffer, issued,
                   pushed, popped, bookVars, pipeVars, lifeVars, skipVars, extVars>>

EngineState ==
    /\ \E p \in Procs : ProcessState(p)
    /\ UNCHANGED <<submitted, enqueued, began, drained, head, tail, capacity, requested, buffer, issued,
                   pushed, popped, bookVars, pipeVars, lifeVars, skipVars, extVars>>

\* one step of queue.Push inside ProcessOrder
EnginePush ==
    /\ \E p \in Procs :
          /\ call[p].pc = "push"
          /\ PushLoadHead(p) \/ PushLoadTail(p) \/ PushCas(p) \/ PushWait(p) \/ PushStore(p)
          /\ call' = [call EXCEPT ![p].hadSpace = IF proc[p].pc = "push_tail"
                                                  THEN ~FullAt(head, tail) ELSE @]
    /\ UNCHANGED <<processed, orderStates, submitted, returned, enqueued, began, drained,
                   capacity, requested, issued, pushed, popped, bookVars, pipeVars, lifeVars, skipVars, extVars>>

EnginePushed ==
    /\ \E p \in Procs : ProcessPushed(p)
    /\ UNCHANGED <<submitted, drained, head, tail, capacity, requested, buffer, issued,
                   pushed, popped, bookVars, pipeVars, lifeVars, skipVars, extVars>>

EngineUnmark ==
    /\ \E p \in Procs : ProcessUnmark(p)
    /\ UNCHANGED <<submitted, enqueued, began, drained, head, tail, capacity, requested, buffer, issued,
                   pushed, popped, bookVars, pipeVars, lifeVars, skipVars, extVars>>

EngineUnstate ==
    /\ \E p \in Procs : ProcessUnstate(p)
    /\ UNCHANGED <<submitted, enqueued, began, drained, head, tail, capacity, requested, buffer, issued,
                   pushed, popped, bookVars, pipeVars, lifeVars, skipVars, extVars>>

\* MatchingWorker.processBatch: orders := queue.BatchPop(w.batchSize) begins
WorkerBatch ==
    /\ \E p \in Workers :
          /\ call[p].pc = "idle"
          /\ BeginBatchPop(p, MaxBatch)
          /\ call' = [call EXCEPT ![p].pc = "batch"]
    /\ UNCHANGED <<processed, orderStates, submitted, returned, enqueued, began, drained,
                   head, tail, capacity, requested, buffer, issued, pushed, popped, bookVars, pipeVars, lifeVars, skipVars, extVars>>

\* one step of queue.BatchPop inside processBatch
WorkerPop ==
    /\ \E p \in Procs :
          /\ call[p].pc = "batch"
          /\ BatchLoadHead(p) \/ BatchLoadTail(p) \/ BatchCas(p) \/ BatchSwap(p)
    /\ UNCHANGED <<engineVars, capacity, requested, issued, pushed, popped, bookVars, pipeVars, lifeVars, skipVars, extVars>>

\* BatchPop returned: every popped order goes to processOrder
WorkerProcess ==
    /\ \E p \in Procs :
          /\ call[p].pc = "batch"
          /\ proc[p].pc = "ret"
          /\ drained' = drained \o proc[p].items
          /\ proc' = [proc EXCEPT ![p] = Idle]
          /\ call' = [call EXCEPT ![p] = NoCall]
    /\ UNCHANGED <<processed, orderStates, submitted, returned, enqueued, began,
                   head, tail, capacity, requested, buffer, issued, pushed, popped, bookVars, pipeVars, lifeVars, skipVars, extVars>>

NextEngine ==
    \/ EngineSubmit \/ EngineMark \/ EngineLookup \/ EngineState \/ EnginePush
    \/ EnginePushed \/ EngineUnmark \/ EngineUnstate
    \/ WorkerBatch \/ WorkerPop \/ WorkerProcess

\* ------------------------------------------------------------------------
\* SpecCrew: the running engine (Stop is not called) with submitters calling
\* ProcessOrder with orders 1, 2, ... of the configured symbol and workers in
\* processBatch; all workers poll the same ingress ring.  Goroutine 1 is a
\* submitter, goroutine NumProcs a worker, and each goroutine between them
\* stands for a submitter and a worker of which one at a time is inside its
\* call, so that two pushes, two BatchPops, or a push and two BatchPops run
\* concurrently.
\* ------------------------------------------------------------------------
Submitters == 1..(NumProcs - 1)
Crew == 2..NumProcs

CrewSubmit ==
    /\ submitted < MaxCalls
    /\ \E p \in Submitters :
          /\ call[p].pc = "idle"
          /\ call' = [call EXCEPT ![p] = [pc |-> "mark", id |-> submitted + 1, symbol |-> Symbol,
                                          hadSpace |-> TRUE, after |-> 0]]
    /\ submitted' = submitted + 1
    /\ UNCHANGED <<processed, orderStates, returned, enqueued, began, drained, ringVars, bookVars, pipeVars, lifeVars, skipVars, extVars>>

\* processBatch of any worker: orders := queue.BatchPop(w.batchSize) begins
CrewBatch ==
    /\ \E p \in Crew :
          /\ call[p].pc = "idle"
          /\ BeginBatchPop(p, MaxBatch)
          /\ call' = [call EXCEPT ![p].pc = "batch"]
    /\ UNCHANGED <<processed, orderStates, submitted, returned, enqueued, began, drained,
                   head, tail, capacity, requested, buffer, issued, pushed, popped, bookVars, pipeVars, lifeVars, skipVars, extVars>>

NextCrew ==
    \/ CrewSubmit \/ EngineMark \/ EngineLookup \/ EngineState \/ EnginePush
    \/ EnginePushed \/ EngineUnmark \/ EngineUnstate
    \/ CrewBatch \/ WorkerPop \/ WorkerProcess

\* NewMatchingEngine: inputQueues[symbol] = lockfree.NewRingBuffer(size)
NewMatchingEngine ==
    InitBook /\ InitRing(IngressSize) /\ InitEngine /\ InitPipe /\ InitLife /\ InitSkip(TRUE) /\ InitExt

SpecEngine == NewMatchingEngine /\ [][NextEngine]_vars

SpecCrew == NewMatchingEngine /\ [][NextCrew]_vars

\* ------------------------------------------------------------------------
\* SpecPipe: the path of an order through the engine, one handler at a time:
\* ProcessOrder copies the order into an object from types.orderPool and
\* pushes it on the ingress ring; the worker pops it, calls Match with the
\* object and then returns the object to the pool; MatchingEngine.CancelOrder
\* may run between any two of these.  Callers pass fresh ids 1, 2, 3, ...
\* ------------------------------------------------------------------------
IngressCapacity == NewRingBufferCapacity(IngressSize)

\* orderPool.Put(order)
PoolPut(pl, h) ==
    [k \in (DOMAIN pl) \cup {h} |->
        IF k = h THEN (IF h \in DOMAIN pl THEN pl[h] ELSE 0) + 1 ELSE pl[k]]

\* orderPool.Get() returning the pooled object h
PoolTake(pl, h) ==
    IF pl[h] = 1 THEN [k \in (DOMAIN pl) \ {h} |-> pl[k]]
    ELSE [pl EXCEPT ![h] = pl[h] - 1]

\* the objects orderPool.Get() may return: a pooled one, or a new one
PoolChoices == (DOMAIN pool) \cup {Len(obj) + 1}

\* the object store after "*orderPtr = *order" for the object h
StoreOrder(h, order) ==
    IF h = Len(obj) + 1 THEN Append(obj, order) ELSE [obj EXCEPT ![h] = order]

\* MatchingEngine.ProcessOrder(order) on the configured symbol, with h the
\* object GetOrderFromPool returns
ProcessOrder(order, h) ==
    IF order.ID \in processed
    THEN UNCHANGED <<processed, orderStates, obj, pool, inputQueue>>
    ELSE IF Len(inputQueue) >= IngressCapacity
    THEN \* Push failed: PutOrderToPool(orderPtr), both entries rolled back
         /\ obj' = StoreOrder(h, ResetOrder)
         /\ pool' = PoolPut(IF h \in DOMAIN pool THEN PoolTake(pool, h) ELSE pool, h)
         /\ processed' = processedDelete(processed \cup {order.ID}, order.ID)
         /\ orderStates' = orderStatesDelete(orderStates, order.ID)
         /\ UNCHANGED inputQueue
    ELSE /\ processed' = processed \cup {order.ID}
         /\ orderStates' = [k \in (DOMAIN orderStates) \cup {order.ID} |->
                               IF k = order.ID
                               THEN [OrderID |-> k, Symbol |-> Symbol,
                                     Status |-> OrderStatusPending, FilledQuantity |-> 0]
                               ELSE orderStates[k]]
         /\ obj' = StoreOrder(h, order)
         /\ pool' = IF h \in DOMAIN pool THEN PoolTake(pool, h) ELSE pool
         /\ inputQueue' = Append(inputQueue, h)

\* MatchingEngine.CancelOrder(orderID, symbol)
EngineCancelOrder(orderID, symbol) ==
    IF symbol # Symbol
    THEN UNCHANGED <<bookVars, pool, orderStates>>
    ELSE /\ CancelOrder(orderID)
         /\ IF CancelSucceeds(orderID)
            THEN /\ pool' = PoolPut(pool, orderMap[orderID])
                 /\ orderStates' = IF orderID \in DOMAIN orderStates
                                    THEN [orderStates EXCEPT
                                              ![orderID].Status = OrderStatusCancelled]
                                    ELSE orderStates
            ELSE UNCHANGED <<pool, orderStates>>

PipeProcessOrder ==
    /\ submitted < MaxPipeOrders
    /\ \E side \in {SideBuy, SideSell}, type \in {TypeLimit, TypeMarket},
          price \in Prices, qty \in 1..MaxQty, h \in PoolChoices :
          ProcessOrder(NewOrder(submitted + 1, side, type,
                                IF type = TypeLimit THEN price ELSE 0, qty), h)
    /\ submitted' = submitted + 1
    /\ UNCHANGED <<buys, sells, orderMap, seqMaps, version, trades, tradeLevel, placed,
                   cancelled, lastOp, working, outputQueue, handled, call, returned,
                   enqueued, began, drained, ringVars, lifeVars, skipVars, extVars>>

\* the MatchResult of a Match call: the order pointer and the trades
MatchResult(h, ts) == [Order |-> h, Trades |-> ts]

\* processOrder: "if len(result.Trades) > 0 || result.Order.Quantity > 0" the
\* result is pushed on the output ring (1024 * 1024 slots, never full here)
pushResult(queue, result) ==
    IF Len(result.Trades) > 0 \/ obj[result.Order].Quantity > 0
    THEN Append(queue, result)
    ELSE queue

\* MatchingWorker.processOrder, first half: the popped order goes to Match
\* and the result to the output ring
PipeWorkerMatch ==
    /\ working = 0
    /\ Len(inputQueue) > 0
    /\ MatchObject(Head(inputQueue), obj[Head(inputQueue)], obj)
    /\ inputQueue' = Tail(inputQueue)
    /\ working' = Head(inputQueue)
    /\ outputQueue' = pushResult(outputQueue,
                          MatchResult(Head(inputQueue),
                                      SubSeq(trades', Len(trades) + 1, Len(trades'))))
    /\ UNCHANGED <<pool, handled, engineVars, ringVars, lifeVars, skipVars, extVars>>

\* MatchingWorker.processOrder, second half: types.PutOrderToPool(order)
PipeWorkerPut ==
    /\ working # 0
    /\ obj' = [obj EXCEPT ![working] = ResetOrder]
    /\ pool' = PoolPut(pool, working)
    /\ working' = 0
    /\ UNCHANGED <<buys, sells, orderMap, seqMaps, version, trades, tradeLevel, placed,
                   cancelled, lastOp, inputQueue, outputQueue, handled, engineVars, ringVars, lifeVars, skipVars, extVars>>

PipeCancel ==
    /\ \E id \in 1..submitted, symbol \in Symbols : EngineCancelOrder(id, symbol)
    /\ UNCHANGED <<inputQueue, working, outputQueue, handled, processed, call, submitted,
                   returned, enqueued, began, drained, ringVars, lifeVars, skipVars, extVars>>

\* MatchingEngine.handleMatchResult(result): it records metrics and the depth
\* of the book; the order states are not touched
handleMatchResult(states, result) == states

\* MatchingEngine.processResults: the egress processor pops a result from the
\* output ring and handles it
PipeEgress ==
    /\ Len(outputQueue) > 0
    /\ orderStates' = handleMatchResult(orderStates, Head(outputQueue))
    /\ outputQueue' = Tail(outputQueue)
    /\ handled' = handled \cup {Head(outputQueue).Trades[i].TakerOrderID :
                                    i \in 1..Len(Head(outputQueue).Trades)}
    /\ UNCHANGED <<bookVars, ringVars, lifeVars, skipVars, extVars, pool, inputQueue, working, processed, call,
                   submitted, returned, enqueued, began, drained>>

NextPipe == PipeProcessOrder \/ PipeWorkerMatch \/ PipeWorkerPut \/ PipeCancel

SpecPipe == Init /\ [][NextPipe]_vars

\* ------------------------------------------------------------------------
\* SpecPipeLive: the pipeline with the egress processor, for limit orders at
\* one price.  The worker and the egress processor are goroutines that loop
\* until the engine stops: each of their steps is taken when it stays possible
\* ------------------------------------------------------------------------
LiveProcessOrder ==
    /\ submitted < MaxLiveOrders
    /\ \E side \in {SideBuy, SideSell}, qty \in 1..MaxQty, h \in PoolChoices :
          ProcessOrder(NewOrder(submitted + 1, side, TypeLimit, LevelPrice, qty), h)
    /\ submitted' = submitted + 1
    /\ UNCHANGED <<buys, sells, orderMap, seqMaps, version, trades, tradeLevel, placed,
                   cancelled, lastOp, working, outputQueue, handled, call, returned,
                   enqueued, began, drained, ringVars, lifeVars, skipVars, extVars>>

NextPipeLive ==
    LiveProcessOrder \/ PipeWorkerMatch \/ PipeWorkerPut \/ PipeCancel \/ PipeEgress

SpecPipeLive ==
    /\ Init
    /\ [][NextPipeLive]_vars
    /\ WF_vars(PipeWorkerMatch)
    /\ WF_vars(PipeWorkerPut)
    /\ WF_vars(PipeEgress)

\* ------------------------------------------------------------------------
\* SpecLife: Start and Stop called by concurrent goroutines, and the tasks
\* Start launches.  A task is a loop that returns when it finds its context
\* cancelled; what it does in between is the subject of the other
\* specifications
\* ------------------------------------------------------------------------
\* a Start that does not look at the started flag
neverStarted(flag) == FALSE

\* Start: "if e.started"
alreadyStarted(flag) == flag

\* wg.Wait() returns when the counter is zero
waitDone(counter) == counter = 0

\* the kinds of task: startWorkers, startSnapshotter, startResultProcessor
Kinds == {"workers", "snapshotter", "egress"}

\* startWorkers, startSnapshotter, startResultProcessor on a new context:
\* WorkerCount + 2 goroutines, each after wg.Add(1)
launchTasks(ts) ==
    Append(ts, [workers |-> WorkerCount, snapshotter |-> 1, egress |-> 1, done |-> FALSE])

\* e.cancel(): cancels the context of the last Start
cancelContext(ts) ==
    IF Len(ts) = 0 THEN ts ELSE [ts EXCEPT ![Len(ts)].done = TRUE]

\* a goroutine calls Start or Stop and reaches e.mu.Lock()
LifeCall ==
    /\ lcalls < MaxLifeCalls
    /\ \E p \in LifeCallers, op \in {"Start", "Stop"} :
          /\ lcall[p].pc = "idle"
          /\ lcall' = [lcall EXCEPT ![p] = [op |-> op, pc |-> "lock", err |-> ErrNone]]
    /\ lcalls' = lcalls + 1
    /\ UNCHANGED <<started, mu, wg, tasks, bookVars, ringVars, engineVars, pipeVars, skipVars, extVars>>

\* e.mu.Lock() returns
LifeLock ==
    /\ mu = 0
    /\ \E p \in LifeCallers :
          /\ lcall[p].pc = "lock"
          /\ mu' = p
          /\ lcall' = [lcall EXCEPT ![p].pc = "body"]
    /\ UNCHANGED <<started, wg, tasks, lcalls, bookVars, ringVars, engineVars, pipeVars, skipVars, extVars>>

\* MatchingEngine.Start under the lock, unlocking on return
Start ==
    /\ \E p \in LifeCallers :
          /\ lcall[p].op = "Start" /\ lcall[p].pc = "body"
          /\ IF alreadyStarted(started)
             THEN /\ lcall' = [lcall EXCEPT ![p].pc = "idle",
                                            ![p].err = ErrEngineAlreadyStarted]
                  /\ UNCHANGED <<started, wg, tasks>>
             ELSE /\ tasks' = launchTasks(tasks)
                  /\ wg' = wg + WorkerCount + 2
                  /\ started' = TRUE
                  /\ lcall' = [lcall EXCEPT ![p].pc = "idle"]
    /\ mu' = 0
    /\ UNCHANGED <<lcalls, bookVars, ringVars, engineVars, pipeVars, skipVars, extVars>>

\* MatchingEngine.Stop under the lock, up to wg.Wait()
Stop ==
    /\ \E p \in LifeCallers :
          /\ lcall[p].op = "Stop" /\ lcall[p].pc = "body"
          /\ IF ~started
             THEN /\ lcall' = [lcall EXCEPT ![p].pc = "idle"]
                  /\ mu' = 0
                  /\ UNCHANGED tasks
             ELSE /\ tasks' = cancelContext(tasks)
                  /\ lcall' = [lcall EXCEPT ![p].pc = "wait"]
                  /\ UNCHANGED mu
    /\ UNCHANGED <<started, wg, lcalls, bookVars, ringVars, engineVars, pipeVars, skipVars, extVars>>

\* MatchingEngine.Stop: wg.Wait() returns, started is cleared, the lock released
StopWait ==
    /\ waitDone(wg)
    /\ \E p \in LifeCallers :
          /\ lcall[p].op = "Stop" /\ lcall[p].pc = "wait"
          /\ lcall' = [lcall EXCEPT ![p].pc = "idle"]
    /\ started' = FALSE
    /\ mu' = 0
    /\ UNCHANGED <<wg, tasks, lcalls, bookVars, ringVars, engineVars, pipeVars, skipVars, extVars>>

\* MatchingWorker.Run, Snapshotter.Run, processResults: "case <-ctx.Done():
\* return", followed by the deferred e.wg.Done()
TaskExit ==
    /\ \E g \in 1..Len(tasks), kind \in Kinds :
          /\ tasks[g].done
          /\ tasks[g][kind] > 0
          /\ tasks' = [tasks EXCEPT ![g][kind] = tasks[g][kind] - 1]
    /\ wg' = wg - 1
    /\ UNCHANGED <<started, mu, lcall, lcalls, bookVars, ringVars, engineVars, pipeVars, skipVars, extVars>>

NextLife == LifeCall \/ LifeLock \/ Start \/ Stop \/ StopWait \/ TaskExit

SpecLife == Init /\ [][NextLife]_vars

\* every goroutine keeps running: a caller blocked in Lock or Wait goes on
\* when it can, and a task sees that its context is cancelled
SpecLifeLive ==
    /\ Init
    /\ [][NextLife]_vars
    /\ WF_vars(LifeLock)
    /\ WF_vars(Start)
    /\ WF_vars(Stop)
    /\ WF_vars(StopWait)
    /\ WF_vars(TaskExit)

\* ------------------------------------------------------------------------
\* SpecStopLive: one Start followed by one Stop, while the goroutines of
\* Callers push orders on the ingress ring (capacity 1) and the worker run by
\* goroutine NumProcs polls it with BatchPop.  That worker is the last of the
\* WorkerCount workers to return; the other tasks return as in SpecLife
\* ------------------------------------------------------------------------
\* the caller calls Start, and Stop after Start has returned
StopLifeCall ==
    /\ lcalls < 2
    /\ lcall[1].pc = "idle"
    /\ lcall' = [lcall EXCEPT ![1] = [op |-> IF lcalls = 0 THEN "Start" ELSE "Stop",
                                      pc |-> "lock", err |-> ErrNone]]
    /\ lcalls' = lcalls + 1
    /\ UNCHANGED <<started, mu, wg, tasks, bookVars, ringVars, engineVars, pipeVars, skipVars, extVars>>

\* ProcessOrder: queue.Push(unsafe.Pointer(order))
SubmitPush ==
    /\ issued < MaxStopPushes
    /\ \E p \in Callers : BeginPush(p, issued + 1)
    /\ issued' = issued + 1
    /\ UNCHANGED <<head, tail, capacity, requested, buffer, pushed, popped, bookVars, engineVars,
                   pipeVars, lifeVars, skipVars, extVars>>

\* MatchingWorker.Run: the context is not cancelled, so select takes the
\* default branch: processBatch calls queue.BatchPop(w.batchSize - processed)
WorkerRun ==
    /\ \E g \in 1..Len(tasks) : ~tasks[g].done /\ tasks[g].workers > 0
    /\ \E w \in Workers : BeginBatchPop(w, MaxBatch)
    /\ UNCHANGED <<head, tail, capacity, requested, buffer, issued, pushed, popped, bookVars,
                   engineVars, pipeVars, lifeVars, skipVars, extVars>>

\* "case <-ctx.Done(): return" and the deferred e.wg.Done().  The worker on
\* the ring is at its select only between two BatchPop calls
RunExit ==
    /\ \E g \in 1..Len(tasks), kind \in Kinds :
          /\ tasks[g].done
          /\ tasks[g][kind] > 0
          /\ (kind = "workers" /\ tasks[g][kind] = 1) => \A w \in Workers : proc[w].pc = "idle"
          /\ tasks' = [tasks EXCEPT ![g][kind] = tasks[g][kind] - 1]
    /\ wg' = wg - 1
    /\ UNCHANGED <<started, mu, lcall, lcalls, bookVars, ringVars, engineVars, pipeVars, skipVars, extVars>>

NextStopLive ==
    \/ StopLifeCall \/ LifeLock \/ Start \/ Stop \/ StopWait \/ RunExit
    \/ SubmitPush \/ WorkerRun \/ PushStep \/ BatchStep \/ RingReturn

\* every goroutine keeps running: a goroutine inside Push or BatchPop keeps
\* taking steps, the worker keeps polling, a task at its select sees a
\* cancelled context, and Lock and Wait return when they can
SpecStopLive ==
    /\ Init
    /\ [][NextStopLive]_vars
    /\ WF_vars(LifeLock)
    /\ WF_vars(Start)
    /\ WF_vars(Stop)
    /\ WF_vars(StopWait)
    /\ WF_vars(RunExit)
    /\ WF_vars(WorkerRun)
    /\ \A p \in Procs :
          WF_vars(/\ PushLoadHead(p) \/ PushLoadTail(p) \/ PushCas(p) \/ PushWait(p)
                     \/ PushStore(p)
                  /\ UNCHANGED <<capacity, requested, issued, pushed, popped, bookVars, engineVars,
                                 pipeVars, lifeVars, skipVars, extVars>>)
    /\ \A p \in Procs :
          WF_vars(/\ BatchLoadHead(p) \/ BatchLoadTail(p) \/ BatchCas(p) \/ BatchSwap(p)
                  /\ UNCHANGED <<capacity, requested, issued, pushed, popped, bookVars, engineVars,
                                 pipeVars, lifeVars, skipVars, extVars>>)
    /\ \A p \in Procs :
          WF_vars(/\ ReturnOf(p)
                  /\ UNCHANGED <<head, tail, capacity, requested, buffer, issued, bookVars, engineVars,
                                 pipeVars, lifeVars, skipVars, extVars>>)

\* ------------------------------------------------------------------------
\* Quantities read off the history of a book run
\* ------------------------------------------------------------------------
RECURSIVE LevelSum(_)
LevelSum(tree) ==
    IF DOMAIN tree = {} THEN 0
    ELSE LET p == CHOOSE q \in DOMAIN tree : TRUE
         IN  tree[p].TotalQty + LevelSum(SkipRemove(tree, p))

RECURSIVE SumRested(_)
SumRested(n) == IF n = 0 THEN 0 ELSE placed[n].Rested + SumRested(n - 1)

\* the quantities of a sequence of trades, added up
RECURSIVE SumTrades(_)
SumTrades(ts) == IF ts = <<>> THEN 0 ELSE Head(ts).Quantity + SumTrades(Tail(ts))

\* what the taker of trade i had left before trade i
TakerRemaining(i) ==
    LET id == trades[i].TakerOrderID
        Mine(t) == t.TakerOrderID = id
    IN  placed[id].Quantity - SumTrades(SelectSeq(SubSeq(trades, 1, i - 1), Mine))

\* what the resting order id had left before trade i
MakerRemaining(id, i) ==
    LET Mine(t) == t.MakerOrderID = id
    IN  placed[id].Rested - SumTrades(SelectSeq(SubSeq(trades, 1, i - 1), Mine))

IsOrderID(id) == id \in 1..Len(placed)

\* the index of the first trade naming id as maker (0 when there is none)
FirstTradeAsMaker(id) ==
    LET hits == {i \in 1..Len(trades) : trades[i].MakerOrderID = id}
    IN  IF hits = {} THEN 0 ELSE CHOOSE i \in hits : \A j \in hits : i <= j

Levels == {buys[p] : p \in DOMAIN buys} \cup {sells[p] : p \in DOMAIN sells}

\* ------------------------------------------------------------------------
\* The claims
\* ------------------------------------------------------------------------

\* C1: quantity is conserved by matching: as long as no order was cancelled,
\* the TotalQty of all levels of both ladders adds up to the quantities
\* rested by limit takers minus the quantities of all executed trades
C1_QuantityConserved ==
    cancelled = {} =>
        LevelSum(buys) + LevelSum(sells)
            = SumRested(Len(placed)) - SumTrades(trades)

\* C2: no crossed book: after every Match call, if both ladders are
\* non-empty the best bid price is strictly below the best ask price
C2_NoCrossedBook ==
    (lastOp.op = "Match" /\ SkipLen(buys) > 0 /\ SkipLen(sells) > 0) =>
        MaxPriceNode(buys).Price < MinPriceNode(sells).Price

\* C3: price-time priority within a level: when a trade names b as maker,
\* every order a that the matched level holds in front of b (a rested at the
\* same side and price before b, and was not cancelled) has been named as
\* maker by an earlier trade
C3_PriceTimePriority ==
    \A i \in 1..Len(trades) :
        \A k, l \in 1..Len(tradeLevel[i]) :
            (k < l /\ tradeLevel[i][l] = trades[i].MakerOrderID) =>
                LET first == FirstTradeAsMaker(tradeLevel[i][k])
                IN  first # 0 /\ first < i

\* C4: each trade consumes one resting maker order: the quantity of a trade
\* naming the order m as maker is min(taker remaining, m's remaining)
C4_TradeFillsOneMaker ==
    \A i \in 1..Len(trades) :
        IsOrderID(trades[i].MakerOrderID) =>
            trades[i].Quantity
                = min(TakerRemaining(i), MakerRemaining(trades[i].MakerOrderID, i))

\* C5: neither ladder contains a level whose TotalQty is 0
C5_NoEmptyLevel == \A level \in Levels : level.TotalQty # 0

\* C6: no negative quantities: every level's TotalQty is >= 0 and every
\* trade has a quantity > 0
C6_NoNegativeQuantity ==
    /\ \A level \in Levels : level.TotalQty >= 0
    /\ \A i \in 1..Len(trades) : trades[i].Quantity > 0

\* C7: every trade names as maker an order that was resting at the matched
\* price level: an order of the other side that rested at the trade's price
\* and was not yet completely filled
C7_MakerIsResting ==
    \A i \in 1..Len(trades) :
        LET m == trades[i].MakerOrderID
        IN  /\ IsOrderID(m)
            /\ \E k \in 1..Len(tradeLevel[i]) : tradeLevel[i][k] = m
            /\ placed[m].Rested > 0
            /\ placed[m].Price = trades[i].Price
            /\ placed[m].Side # placed[trades[i].TakerOrderID].Side
            /\ MakerRemaining(m, i) > 0

\* ------------------------------------------------------------------------
\* Quantities read off the history of a ring run
\* ------------------------------------------------------------------------
\* the items a running Pop or BatchPop has taken and not yet returned
Held(p) ==
    IF proc[p].op = "Pop" /\ proc[p].pc \in {"pop_clear", "ret"} /\ proc[p].item # NIL
    THEN {proc[p].item}
    ELSE IF proc[p].op = "BatchPop"
         THEN {proc[p].items[k] : k \in 1..Len(proc[p].items)}
         ELSE {}

InBuffer == {buffer[i] : i \in DOMAIN buffer} \ {NIL}
Returned == {popped[k] : k \in 1..Len(popped)}

\* C8: in every interleaving of Push, Pop and BatchPop calls, every item a
\* pop returned was pushed, no item is returned twice, and every item whose
\* Push returned true is still in its slot, is held by a pop that is about
\* to return it, or has been returned (it is never overwritten or cleared).
C8_NoLossNoDuplicate ==
    /\ \A k \in 1..Len(popped) : popped[k] \in 1..issued
    /\ \A k, l \in 1..Len(popped) : k # l => popped[k] # popped[l]
    /\ \A x \in pushed : x \in InBuffer \cup Returned \cup UNION {Held(p) : p \in Procs}

\* ------------------------------------------------------------------------
\* Quantities read off the history of an engine run
\* ------------------------------------------------------------------------
\* the finished ProcessOrder calls that carried id
CallsOf(id) == {k \in 1..Len(returned) : returned[k].id = id}
\* a ProcessOrder call carrying id is running
InFlight(id) == \E p \in Procs : call[p].pc \notin {"idle", "batch"} /\ call[p].id = id
\* the number of copies of id the ingress ring received
Copies(id) == Cardinality({k \in 1..Len(enqueued) : enqueued[k] = id})

\* C9: when exactly two ProcessOrder calls carried an id, both named the
\* configured symbol, both have returned and the ingress ring had room
\* whenever their Push decided, then one returned no error, the other
\* returned ErrDuplicateOrder, and the ring received exactly one copy.
C9_IdempotentSubmit ==
    \A id \in OrderIDs :
        (/\ Cardinality(CallsOf(id)) = 2
         /\ ~InFlight(id)
         /\ \A k \in CallsOf(id) : returned[k].symbol = Symbol /\ returned[k].hadSpace)
        => /\ \E k, l \in CallsOf(id) :
                 returned[k].err = ErrNone /\ returned[l].err = ErrDuplicateOrder
           /\ Copies(id) = 1

\* a finished ProcessOrder call carrying id returned no error
Accepted(id) == \E k \in CallsOf(id) : returned[k].err = ErrNone

PlacedOf(id) == CHOOSE k \in 1..Len(placed) : placed[k].ID = id

\* the TotalQty of the level of side at price (0 when there is no level)
LevelQty(side, price) ==
    LET tree == IF side = SideBuy THEN buys ELSE sells
    IN  IF SkipHas(tree, price) THEN SkipGet(tree, price).TotalQty ELSE 0

\* the unfilled quantity of the resting order id: what Match rested of it
\* less the trades that named it as maker
RestingRemaining(id) ==
    LET Mine(t) == t.MakerOrderID = id
    IN  placed[PlacedOf(id)].Rested - SumTrades(SelectSeq(trades, Mine))

\* C11: cancel correctness: every step in which MatchingEngine.CancelOrder(id,
\* symbol) returns true leaves the order state of id Cancelled, leaves no
\* entry for id in the book's order index, and lowers the TotalQty of the
\* order's level by exactly the unfilled quantity of the order.
C11_CancelCorrect ==
    [][\A id \in 1..submitted :
          (id \notin cancelled /\ id \in cancelled')
          => LET side == placed[PlacedOf(id)].Side
                 price == placed[PlacedOf(id)].Price
             IN  /\ id \in DOMAIN orderStates'
                 /\ orderStates'[id].Status = OrderStatusCancelled
                 /\ id \notin DOMAIN orderMap'
                 /\ LevelQty(side, price) - LevelQty(side, price)' = RestingRemaining(id)]_vars

\* the order id rests in the book: Match rested a residual of it, it was
\* not cancelled since, and the trades have not used the residual up
Resting(id) ==
    /\ IsOrderID(id)
    /\ placed[id].Rested > 0
    /\ id \notin cancelled
    /\ MakerRemaining(id, Len(trades) + 1) > 0

\* C12: in every reachable book state CancelOrder(id) returns true exactly
\* for the ids that rest in the book (also not for an id never seen, already
\* cancelled or completely filled), and a CancelOrder that returns false
\* leaves the ladders, the order index and the version unchanged.
C12_CancelExactlyResting ==
    /\ [](\A id \in 1..(Len(placed) + 1) : CancelSucceeds(id) <=> Resting(id))
    /\ [][(lastOp' # lastOp /\ lastOp'.op = "CancelOrder" /\ ~lastOp'.ok)
            => (buys' = buys /\ sells' = sells /\ orderMap' = orderMap
                /\ version' = version)]_vars

\* C13: an Order object the book holds as resting is not returned to the
\* pool: for every order whose residual Match rested and that was not
\* cancelled, the object the order index holds for its id still carries the
\* id, side, price, quantity and type the order came with and is not in
\* orderPool; and as long as nothing has traded, CancelOrder(id) would
\* return true for it.
C13_RestingObjectNotPooled ==
    \A k \in 1..Len(placed) :
        (placed[k].Rested > 0 /\ placed[k].ID \notin cancelled)
        => LET id == placed[k].ID
           IN  /\ id \in DOMAIN orderMap
               /\ orderMap[id] \notin DOMAIN pool
               /\ obj[orderMap[id]] = NewOrder(id, placed[k].Side, placed[k].Type,
                                               placed[k].Price, placed[k].Quantity)
               /\ (trades = <<>> => CancelSucceeds(id))

\* whether some level of either ladder lists an order object carrying id
InSomeLevel(id) ==
    \E level \in Levels : \E i \in 1..Len(level.Orders) : obj[level.Orders[i]].ID = id

\* the opposite ladder after a Match that rested nothing there: no new level,
\* and every level that is left has its price and orders and no more quantity
OnlyConsumed(before, after) ==
    /\ DOMAIN after \subseteq DOMAIN before
    /\ \A p \in DOMAIN after :
          /\ after[p].Price = before[p].Price
          /\ after[p].Orders = before[p].Orders
          /\ after[p].TotalQty <= before[p].TotalQty

\* the quantity the order of Match call k traded as taker
TakerFilled(k) ==
    LET Mine(t) == t.TakerOrderID = placed[k].ID
    IN  SumTrades(SelectSeq(trades, Mine))

C15_TradeAtMakerPrice ==
    \A i \in 1..Len(trades) :
        /\ tradeLevel[i] # <<>>
        /\ \A j \in 1..Len(tradeLevel[i]) :
              placed[PlacedOf(tradeLevel[i][j])].Price = trades[i].Price

\* a limit taker traded at a price that is not its own, and a market taker
\* traded
C15_Witness ==
    /\ \E i \in 1..Len(trades) :
          LET taker == placed[PlacedOf(trades[i].TakerOrderID)]
          IN  taker.Type = TypeLimit /\ taker.Price # trades[i].Price
    /\ \E i \in 1..Len(trades) :
          placed[PlacedOf(trades[i].TakerOrderID)].Type = TypeMarket

\* the best level a taker of the given side faces: the lowest ask for a buy,
\* the highest bid for a sell (nil when the opposite ladder is empty)
BestOpposite(side) ==
    IF side = SideBuy THEN MinPriceNode(sells) ELSE MaxPriceNode(buys)

\* whether a taker of the given side faces any level
FacesLevel(side) == SkipLen(IF side = SideBuy THEN sells ELSE buys) > 0

\* C16: a limit taker never trades beyond its limit: every trade of a limit
\* buy has a price <= the taker's price and every trade of a limit sell a
\* price >= the taker's price; and a Match of a limit taker whose price equals
\* the best opposite price, or of a market taker facing a non-empty opposite
\* ladder, trades at that best level.
C16_LimitPriceRespected ==
    /\ [](\A i \in 1..Len(trades) :
            LET taker == placed[PlacedOf(trades[i].TakerOrderID)]
            IN  taker.Type = TypeLimit
                => /\ taker.Side = SideBuy => trades[i].Price <= taker.Price
                   /\ taker.Side = SideSell => trades[i].Price >= taker.Price)
    /\ [][Len(placed') = Len(placed) + 1
            => LET taker == placed'[Len(placed')]
                   best == BestOpposite(taker.Side)
               IN  (FacesLevel(taker.Side) /\ (taker.Type = TypeMarket \/ taker.Price = best.Price))
                   => /\ Len(trades') > Len(trades)
                      /\ trades'[Len(trades) + 1].TakerOrderID = taker.ID
                      /\ trades'[Len(trades) + 1].Price = best.Price]_vars

\* C17: the version of the book goes up by exactly 1 in every Match call,
\* whatever the number of trades, and in every CancelOrder call that returns
\* true; a CancelOrder that returns false and the read operations GetSnapshot,
\* GetBestBid, GetBestAsk and GetStats leave it as it is.
C17_VersionCounts ==
    [][/\ Len(placed') = Len(placed) + 1 => version' = version + 1
       /\ cancelled' # cancelled => version' = version + 1
       /\ (lastOp'.op = "CancelOrder" /\ ~lastOp'.ok) => version' = version
       /\ lastOp'.op \in ReadOps => version' = version]_vars

\* Match calls without a trade and with a trade, a cancel that succeeded and,
\* as the last call, a cancel that failed have been counted
C17_Witness ==
    /\ Len(trades) > 0
    /\ Len(trades) < Len(placed)
    /\ cancelled # {}
    /\ lastOp = [op |-> "CancelOrder", ok |-> FALSE]
    /\ version = Len(placed) + Cardinality(cancelled)

\* C18: every trade a Match call emits names the incoming order as taker:
\* TakerOrderID is the id of the incoming order and TakerSide its side.
C18_TradeNamesTaker ==
    [][Len(placed') = Len(placed) + 1
        => \A i \in (Len(trades) + 1)..Len(trades') :
              /\ trades'[i].TakerOrderID = placed'[Len(placed')].ID
              /\ trades'[i].TakerSide = placed'[Len(placed')].Side]_vars

\* the snapshot depths checked: below, at and above the number of levels
MaxDepth == 3

\* whether price p is strictly better than price q: higher for a bid, lower
\* for an ask
BetterPrice(p, q, side) == IF side = SideBuy THEN p > q ELSE p < q

\* whether rows is the best-first listing of the n best levels of the ladder
\* tree of side
BestFirst(rows, tree, n, side) ==
    /\ Len(rows) = n
    /\ \A i \in 1..Len(rows) :
          /\ rows[i].Price \in DOMAIN tree
          /\ rows[i].Quantity = tree[rows[i].Price].TotalQty
          /\ \A j \in 1..Len(rows) : i < j => BetterPrice(rows[i].Price, rows[j].Price, side)
          /\ \A p \in DOMAIN tree :
                (\A j \in 1..Len(rows) : rows[j].Price # p) => BetterPrice(rows[i].Price, p, side)

\* C19: GetSnapshot(depth) lists, for each side, exactly the min(depth,
\* number of levels) best levels in ladder order: the bids by strictly
\* descending price from the highest bid, the asks by strictly ascending
\* price from the lowest ask, each with the price and the current TotalQty
\* of its level.
C19_SnapshotBestLevels ==
    \A depth \in 0..MaxDepth :
        /\ BestFirst(GetSnapshot(depth).Bids, buys, min(depth, SkipLen(buys)), SideBuy)
        /\ BestFirst(GetSnapshot(depth).Asks, sells, min(depth, SkipLen(sells)), SideSell)

\* GetSnapshot was called, after a trade, on a book with two bid levels of
\* different quantities
C19_Witness ==
    /\ lastOp.op = "GetSnapshot"
    /\ SkipLen(buys) = 2
    /\ Len(trades) > 0
    /\ GetSnapshot(1).Bids # GetSnapshot(2).Bids
    /\ GetSnapshot(2).Bids[1].Quantity # GetSnapshot(2).Bids[2].Quantity

\* the ids of the orders resting at the level of side at price
RestingAt(side, price) ==
    {id \in 1..Len(placed) :
        Resting(id) /\ placed[id].Side = side /\ placed[id].Price = price}

\* the remaining quantities of a set of resting orders, added up
RECURSIVE SumRemaining(_)
SumRemaining(ids) ==
    IF ids = {} THEN 0
    ELSE LET id == CHOOSE x \in ids : TRUE
         IN  RestingRemaining(id) + SumRemaining(ids \ {id})

\* whether the level of side at price shows the orders resting there
LevelConsistent(level, side, price) ==
    /\ level.TotalQty = SumRemaining(RestingAt(side, price))
    /\ Len(level.Orders) = Cardinality(RestingAt(side, price))

\* C20: for every price level of both ladders, TotalQty is the sum of the
\* remaining quantities of the orders resting at that price and the count a
\* snapshot reports, len(level.Orders), is the number of those orders, also
\* after fills and cancels.
C20_LevelTotals ==
    /\ \A p \in DOMAIN buys : LevelConsistent(buys[p], SideBuy, p)
    /\ \A p \in DOMAIN sells : LevelConsistent(sells[p], SideSell, p)

\* the status GetOrderState(id) reports (-1 when it returns ErrOrderNotFound)
GetOrderState(id) == IF id \in DOMAIN orderStates THEN orderStates[id].Status ELSE 0 - 1

\* the status the fills of a taker call for: Filled when the trades it took
\* add up to its original quantity, Partial when they add up to less
StatusOfFills(id) ==
    IF TakerFilled(PlacedOf(id)) >= placed[PlacedOf(id)].Quantity
    THEN OrderStatusFilled
    ELSE OrderStatusPartial

\* C21: the order-status view follows fills: once the egress processor has
\* handled the MatchResult of an accepted order that traded as taker,
\* GetOrderState(id) eventually reports Partial (0 < filled < original) or
\* Filled (filled >= original), or Cancelled if the rest was cancelled: the
\* status does not stay Pending forever.
C21_StatusFollowsFills ==
    \A id \in 1..MaxLiveOrders :
        (id \in handled)
        ~> (/\ id \in handled
            /\ GetOrderState(id) \in {StatusOfFills(id), OrderStatusCancelled})

\* the goroutines of a kind that are running, over all contexts
RECURSIVE Running(_, _)
Running(ts, kind) ==
    IF ts = <<>> THEN 0 ELSE Head(ts)[kind] + Running(Tail(ts), kind)

\* the Start calls that launched tasks and whose context Stop has cancelled
CancelledStarts == {g \in 1..Len(tasks) : tasks[g].done}

\* C22: a Start on an engine that is already started returns
\* ErrEngineAlreadyStarted and launches nothing; however Start calls overlap,
\* the tasks are launched once: at most WorkerCount workers, one snapshotter
\* and one egress processor run at any time, and tasks are launched again
\* only after a Stop has cancelled the earlier ones.
C22_StartOnce ==
    /\ [](/\ Running(tasks, "workers") <= WorkerCount
          /\ Running(tasks, "snapshotter") <= 1
          /\ Running(tasks, "egress") <= 1
          /\ Len(tasks) <= Cardinality(CancelledStarts) + 1)
    /\ [][\A p \in LifeCallers :
            (started /\ lcall[p].op = "Start" /\ lcall[p].pc = "body"
                     /\ lcall'[p].pc = "idle")
            => /\ lcall'[p].err = ErrEngineAlreadyStarted
               /\ tasks' = tasks
               /\ wg' = wg]_vars

\* two Start calls on a new engine have returned: one launched the tasks,
\* the other returned ErrEngineAlreadyStarted
C22_Witness ==
    /\ \A p \in LifeCallers : lcall[p].op = "Start" /\ lcall[p].pc = "idle"
    /\ \E p \in LifeCallers : lcall[p].err = ErrEngineAlreadyStarted
    /\ \E p \in LifeCallers : lcall[p].err = ErrNone
    /\ lcalls = 2
    /\ Len(tasks) = 1
    /\ Running(tasks, "workers") = WorkerCount

\* C23: a Stop call returns: every Stop that was called eventually returns,
\* and the step in which a Stop on a started engine returns leaves no worker,
\* snapshotter or egress processor running and the engine not started.
C23_StopReturns ==
    /\ \A p \in LifeCallers :
          (lcall[p].op = "Stop" /\ lcall[p].pc # "idle") ~> (lcall[p].pc = "idle")
    /\ [][\A p \in LifeCallers :
            (lcall[p].pc = "wait" /\ lcall'[p].pc = "idle")
            => /\ \A kind \in Kinds : Running(tasks', kind) = 0
               /\ wg' = 0
               /\ ~started']_vars

\* C24: a full ring refuses a Push: the ring never holds more than capacity
\* items (tail <= head <= tail + capacity); no step reserves a slot (moves
\* head) from a state in which the ring holds capacity items; the step in
\* which a Push decides to return false changes neither head, tail nor any
\* slot; and once capacity pushes have succeeded and nothing was popped,
\* IsFull() is true.
C24_FullRingRefusesPush ==
    /\ [](tail <= head /\ head - tail <= capacity)
    /\ [](AllIdle /\ popped = <<>> /\ Cardinality(pushed) = capacity => IsFull)
    /\ [][/\ head' # head => head - tail < capacity
          /\ \A p \in Procs :
                (proc[p].op = "Push" /\ proc[p].pc # "ret"
                    /\ proc'[p].pc = "ret" /\ ~proc'[p].ok)
                => (head' = head /\ tail' = tail /\ buffer' = buffer)]_vars

\* capacity pushes succeeded, nothing was popped, and a further Push is
\* about to return false
C24_Witness ==
    /\ Cardinality(pushed) = capacity
    /\ popped = <<>>
    /\ IsFull
    /\ \E p \in Procs : proc[p].op = "Push" /\ proc[p].pc = "ret" /\ ~proc[p].ok
    /\ \A p \in Procs : proc[p].op \in {"Push", "none"}

\* the powers of two, up to the first one a word cannot hold
PowersOfTwo == {2 ^ k : k \in 0..WordBits}

\* C25: the capacity of a ring is the smallest power of two that is not
\* below the size NewRingBuffer was called with (1000 gives 1024, 10 gives
\* 16, a power of two gives itself), for every size >= 1.
C25_CapacityRoundsUp ==
    /\ requested >= 1
    /\ capacity \in PowersOfTwo
    /\ capacity >= requested
    /\ \A c \in PowersOfTwo : c >= requested => capacity <= c
    /\ Mask = capacity - 1
    /\ NewRingBufferCapacity(1000) = 1024
    /\ NewRingBufferCapacity(10) = 16

\* the items whose Push returned true, in the order of their pushes (items
\* are numbered in the order their Push calls begin)
PushedInOrder ==
    [k \in 1..Cardinality(pushed) |->
        CHOOSE x \in pushed : Cardinality({y \in pushed : y < x}) = k - 1]

\* the slots from tail up to head, oldest first
Contents == [k \in 1..Size |-> buffer[BitAnd(tail + k - 1, Mask)]]

\* the number of accepted items not yet returned to a caller
Unreturned == Cardinality(pushed) - Len(popped)

\* C26: used sequentially the ring is a FIFO queue: between calls the items
\* returned so far followed by the items in the ring are the accepted items
\* in push order; a Pop returns nil on an empty ring and the oldest item
\* otherwise; BatchPop(max) with max > 0 returns the min(max, Size) oldest
\* items in push order and reduces Size by that count; BatchPop(max) with
\* max <= 0 returns nothing and changes neither head, tail nor any slot.
C26_SequentialFifo ==
    /\ [](AllIdle => popped \o Contents = PushedInOrder)
    /\ [](\A p \in Procs :
            (proc[p].pc = "ret" /\ proc[p].op = "Pop") =>
                IF Unreturned = 0
                THEN proc[p].item = NIL /\ Size = 0
                ELSE proc[p].item = PushedInOrder[Len(popped) + 1] /\ Size = Unreturned - 1)
    /\ [](\A p \in Procs :
            (proc[p].pc = "ret" /\ proc[p].op = "BatchPop") =>
                LET n == IF proc[p].max <= 0 THEN 0 ELSE min(proc[p].max, Unreturned)
                IN  /\ proc[p].items = SubSeq(PushedInOrder, Len(popped) + 1, Len(popped) + n)
                    /\ Size = Unreturned - n)
    /\ [][\A p \in Procs :
            (proc'[p].op = "BatchPop" /\ proc'[p].max <= 0)
            => (head' = head /\ tail' = tail /\ buffer' = buffer)]_vars

\* after a Pop, a BatchPop(2) on a ring holding three items is about to
\* return the two oldest of them
C26_Witness ==
    /\ Len(popped) = 1
    /\ Unreturned = 3
    /\ \E p \in Procs :
          /\ proc[p].pc = "ret" /\ proc[p].op = "BatchPop" /\ proc[p].max = 2
          /\ proc[p].items = <<2, 3>>

\* the push of enqueued[i] had returned true when the push of enqueued[j] began
PushedBefore(i, j) == i <= began[j]

\* C28: per-symbol FIFO with a single worker: if the ingress Push of one
\* order had returned true before the Push of another order began, the worker
\* does not hand the second order to processOrder (and so to Match) before
\* the first, whatever the number of concurrent submitters.
C28_SingleWorkerFifo ==
    \A i, j \in 1..Len(enqueued) :
        (PushedBefore(i, j) /\ Copies(enqueued[i]) = 1 /\ Copies(enqueued[j]) = 1) =>
            \A m \in 1..Len(drained) :
                drained[m] = enqueued[j] => \E k \in 1..(m - 1) : drained[k] = enqueued[i]

\* the levels held by the nodes of the list
LevelsIn(st) == {st.nodes[n].value : n \in DOMAIN st.nodes}

\* C29: on a ladder of either orientation, after any inserts and removes,
\* MaxPriceNode returns a level of the ladder whose price no other level
\* exceeds and MinPriceNode one whose price no other level is below, and both
\* return nil on an empty ladder; GetBestBid and GetBestAsk return the price
\* and quantity of those levels, and (0, 0) on an empty ladder.
C29_BestLevels ==
    LET levels == LevelsIn(skipTree)
        highest == ListMaxPriceNode(skipTree)
        lowest == ListMinPriceNode(skipTree)
    IN  IF levels = {}
        THEN /\ highest = NilLevel
             /\ lowest = NilLevel
             /\ GetBestBid(skipTree) = <<0, 0>>
             /\ GetBestAsk(skipTree) = <<0, 0>>
        ELSE /\ highest \in levels
             /\ \A level \in levels : PriceOf(highest) >= PriceOf(level)
             /\ lowest \in levels
             /\ \A level \in levels : PriceOf(lowest) <= PriceOf(level)
             /\ GetBestBid(skipTree) = <<PriceOf(highest), TotalQtyOf(highest)>>
             /\ GetBestAsk(skipTree) = <<PriceOf(lowest), TotalQtyOf(lowest)>>

\* a descending ladder (the bids) of full height holds two levels after its
\* first node was removed
C29_Witness ==
    /\ skipTree.reverse
    /\ skipTree.level = SkipMaxLevel
    /\ DOMAIN skipTree.nodes = {2, 3}
    /\ ListMaxPriceNode(skipTree) # ListMinPriceNode(skipTree)

C40_SizeWithinCapacity ==
    /\ [](tail <= head /\ head - tail <= capacity /\ sizing.ret \in 0..capacity)
    /\ [][head' # head => head' = head + 1 /\ head - tail < capacity]_vars

\* the ring is full on its second lap, a Size() call has returned capacity and
\* another one has loaded a head that the tail has passed since
C40_Witness ==
    /\ tail >= 1
    /\ sizing.pc = "loaded"
    /\ sizing.head < tail
    /\ sizing.ret = capacity

\* C32: IsValid returns true exactly when the symbol is non-empty, the
\* quantity is > 0, the side is 1 or 2, the type is 1 or 2 and a limit order's
\* price is > 0; a market order with price 0 and otherwise valid fields is valid.
C32_IsValidExact ==
    validated # <<>> =>
        LET o == validated[1]
        IN  validated[2] = (/\ o.Symbol # ""
                            /\ o.Quantity > 0
                            /\ o.Side \in {1, 2}
                            /\ o.Type \in {1, 2}
                            /\ (o.Type = TypeLimit => floatGreater(o.Price, Number(0))))

\* C31: Validate returns true for every SkipTree reached by any sequence of
\* Insert and Remove with positive prices, ascending or descending.
C31_ValidateHolds == Validate(skipTree)

\* the nodes of the list with a key in lo..hi, as the callback would get them
InRange(st, lo, hi) ==
    {<<st.nodes[n].key, st.nodes[n].value>> :
        n \in {x \in DOMAIN st.nodes : lo <= st.nodes[x].key /\ st.nodes[x].key <= hi}}

\* a set of (key, level) pairs in ladder order: highest key first on a
\* descending ladder, lowest first on an ascending one
RECURSIVE LadderOrder(_, _)
LadderOrder(S, reverse) ==
    IF S = {} THEN <<>>
    ELSE LET best == CHOOSE x \in S : \A y \in S :
                         IF reverse THEN x[1] >= y[1] ELSE x[1] <= y[1]
         IN  <<best>> \o LadderOrder(S \ {best}, reverse)

\* the first n elements of a sequence, all of them when n = 0
UpTo(s, n) == IF n = 0 \/ n >= Len(s) THEN s ELSE SubSeq(s, 1, n)

\* C39: RangeBetween(lo, hi) with lo <= hi calls the callback exactly on the
\* levels with lo <= price <= hi, in ladder order (best first), on ascending and
\* descending ladders, and makes no call after the first one that returned false.
C39_RangeBetweenExact ==
    ranged # <<>> =>
        ranged.calls = UpTo(LadderOrder(InRange(skipTree, ranged.lo, ranged.hi),
                                        skipTree.reverse), ranged.stopAt)

\* the orders of the queue from head on, size of them
QueueContents(q) == [i \in 1..q.size |-> q.orders[(q.head + i - 1) % ordersLen(q)]]

\* the ids in a sequence
IdsIn(s) == {s[i] : i \in 1..Len(s)}

\* C38: after any sequence of Push, Pop and Remove the queue holds, from its
\* head on, exactly the orders pushed and not yet popped or removed, in push
\* order; Size is their number; Peek and Pop return the earliest of them (nil
\* when there is none); Remove(id) returns true exactly when id is among them,
\* and changes nothing when it is not.  This covers index wrap-around,
\* doubling when full and removal of a middle element.
C38_OrderQueueIsFifo ==
    /\ [](/\ QueueContents(oq) = fifo
          /\ OrderQueueSize(oq) = Len(fifo)
          /\ OrderQueuePeek(oq) = (IF fifo = <<>> THEN NIL ELSE Head(fifo)))
    /\ [][(oqCall'.op = "Pop" =>
              oqCall'.ret = (IF fifo = <<>> THEN NIL ELSE Head(fifo)))
          /\ (oqCall'.op = "Remove" =>
                (/\ oqCall'.ret = (IF oqCall'.arg \in IdsIn(fifo) THEN 1 ELSE 0)
                 /\ (oqCall'.ret = 0 => oq' = oq)))]_vars

\* a queue that was doubled and whose indices have wrapped around holds at least
\* two orders after the removal of one from between them
C38_Witness ==
    /\ ordersLen(oq) >= 4
    /\ oq.tail < oq.head
    /\ oqCall.op = "Remove"
    /\ oqCall.ret = 1
    /\ Len(fifo) >= 2
    /\ fifo[1] < oqCall.arg
    /\ oqCall.arg < fifo[Len(fifo)]

\* the quantity of the first k - 1 trades of ts made at price p
RECURSIVE TradedAt(_, _, _)
TradedAt(ts, k, p) ==
    IF k <= 1 THEN 0
    ELSE TradedAt(ts, k - 1, p) + (IF ts[k - 1].Price = p THEN ts[k - 1].Quantity ELSE 0)

\* C37: within one Match call the trades of a buy taker have non-decreasing
\* prices and those of a sell taker non-increasing prices, and no trade is made
\* at a level while the opposite side holds a strictly better-priced level
\* whose quantity, less what the earlier trades of the call took from it, is > 0.
C37_BestLevelFirst ==
    [][Len(trades') > Len(trades) =>
          LET taker == placed'[Len(placed')]
              made == SubSeq(trades', Len(trades) + 1, Len(trades'))
              opposite == IF taker.Side = SideBuy THEN sells ELSE buys
              ladderSide == IF taker.Side = SideBuy THEN SideSell ELSE SideBuy
          IN  /\ \A k \in 1..(Len(made) - 1) :
                    ~BetterPrice(made[k + 1].Price, made[k].Price, ladderSide)
              /\ \A k \in 1..Len(made) : \A p \in DOMAIN opposite :
                    BetterPrice(p, made[k].Price, ladderSide) =>
                        opposite[p].TotalQty - TradedAt(made, k, p) <= 0]_vars

\* one order has traded at two prices, and one of them was a sell order
C37_Witness ==
    /\ \E i \in 1..(Len(trades) - 1) :
          /\ trades[i].TakerOrderID = trades[i + 1].TakerOrderID
          /\ trades[i].Price # trades[i + 1].Price
          /\ placed[PlacedOf(trades[i].TakerOrderID)].Side = SideSell

\* the ids in the egress ring
QueuedResults == {egress[i] : i \in 1..Len(egress)}

\* C35: every MatchResult that Match took from the pool is put back exactly
\* once: at once by the worker when the egress ring refused it (or when there
\* was nothing to send), and otherwise by the result processor when it has
\* handled the result; no result is put back twice, and none is put back while
\* it is in the egress ring.
C35_ResultsReleasedOnce ==
    \A h \in 1..Len(resultLog) :
        /\ resultLog[h].puts <= 1
        /\ h \in QueuedResults => resultLog[h].puts = 0
        /\ resultLog[h].at \in {"dropped", "empty", "handled"} => resultLog[h].puts = 1

\* C36: every Snapshot is a view of one book state: its Version is the
\* OrdersProcessed of the state its levels were read in, and no Match or
\* CancelOrder took effect between the reading of the levels and the reading of
\* the stats.
C36_SnapshotConsistent ==
    snapshot # <<>> =>
        /\ snapshot.Version = snapshot.dataProcessed
        /\ snapshot.statsVersion = snapshot.dataVersion

\* C33: a worker looks at its context only between batches: every order its
\* BatchPop returned has been passed to processOrder, and so to Match, or is
\* still waiting in the current batch; none is dropped, and when the worker
\* has exited every order it popped has been passed on.
C33_PoppedOrdersMatched ==
    /\ IdsIn(taken) \subseteq IdsIn(passed) \cup IdsIn(runner.orders)
    /\ runner.pc = "exited" => IdsIn(taken) \subseteq IdsIn(passed)

\* the orders handed to processOrder, and so to Match, so far
MatchedOrders == IdsIn(drained)
\* the accepted orders: those whose ProcessOrder returned no error
AcceptedOrders == IdsIn(enqueued)

\* C34 (safety half): no order reaches Match twice, and every accepted order
\* has been matched, sits in the ring, or is held by a worker's BatchPop
C34_ExactlyOnce ==
    /\ \A k, l \in 1..Len(drained) : k # l => drained[k] # drained[l]
    /\ AcceptedOrders \subseteq MatchedOrders \cup InBuffer \cup UNION {Held(p) : p \in Procs}

\* C27: no unbounded blocking in the ring: under fair scheduling of the
\* goroutines inside a call, every Push and Pop call returns; a producer
\* waiting for its reserved slot to be empty and a consumer waiting for its
\* reserved slot to be written do not wait forever.
C27_RingCallsReturn ==
    \A p \in Procs : (proc[p].pc # "idle") ~> (proc[p].pc = "idle")

====
